---- MODULE Spec2Model ----
(***************************************************************************)
(* FriendFlow: poll lifecycle, vote ledger and PlanBot commands.           *)
(*                                                                         *)
(* The client-side helpers (lib/pollHelpers.ts) talk to a hosted document  *)
(* store; every `await databases.*` call is one                            *)
(* persistence step that another client may interleave with and that may   *)
(* fail.  The Express server (server/routes.ts) keeps its own relational   *)
(* store and is modelled by the Db* variables and the Post* actions.       *)
(* PlanBot (lib/planbot.ts) parses chat input character by character and   *)
(* runs its commands against the same document store.                      *)
(***************************************************************************)
EXTENDS Integers, FiniteSets, Sequences, TLC

\* ---------------------------------------------------------------- bounds
MaxPolls == 2
MaxVotes == 2
MaxDbPolls == 2
MaxDbMessages == 2
MaxChatMessages == 4
MaxDbVotes == 1

\* places.slice(0, 5), data.results.slice(0, 5)
TopN == 5

\* two client calls can be in flight at once (two members, or one member twice)
Procs == {"c1", "c2"}
Users == {"u1", "u2"}
Groups == {"g1", "g2"}
Choices == {"join", "maybe", "no"}
PollTypes == {"movie", "place"}

NoId == 0
None == "-"

VARIABLES
    polls,        \* POLLS collection: poll id -> [groupId, creatorId, active]
    votes,        \* VOTES collection: vote id -> [pollId, userId, choice]
    nextPollId,   \* ID.unique() / $createdAt order of the POLLS collection
    nextVoteId,   \* ID.unique() / $createdAt order of the VOTES collection
    pc,           \* position of each client call
    arg,          \* arguments of the call in progress
    pending,      \* requests issued and not yet settled (Promise.all / for-of)
    fetched,      \* the poll document the call read with getDocument
    listed,       \* the documents the call's listDocuments returned and acts on
    found,        \* castVote: the existing vote the lookup returned, or NoId
    result,       \* outcome handed to the caller
    interleaved,  \* some other client stepped since this call began
    dbPolls,      \* server: polls table, id -> [groupId, createdBy, type, title, active]
    dbVotes,      \* server: votes table, id -> [pollId, userId, choice]
    dbMessages,   \* server: messages table, in insertion order
    sent,         \* server: events handed to broadcastToGroup, in call order
    req,          \* server: the request each handler is serving
    bot,          \* PlanBot: input and locals of each client's handlePlanbotCommand call
    out,          \* PlanBot: MESSAGES documents the call in progress has created
    notified,     \* PlanBot: NOTIFICATIONS createDocument calls of the call in progress
    searchResults, \* PlanBot: each client's searchResults map, group -> candidates
    selectedItems, \* PlanBot: each client's selectedItems map, group -> candidate
    pollMeta,     \* POLLS collection: poll id -> metadata [date, time] (PlanBot polls)
    dbReactions,  \* server: reactions table, a set of [messageId, userId]
    clients,      \* server: the clients map, group -> set of sockets
    ws,           \* server: each socket's readyState and its handler's userId, currentGroupId
    joins,        \* server: join messages awaiting storage.getGroupById
    joined,       \* the group of each socket's latest join that passed the membership check
    received,     \* the change events each socket was sent, in order
    collection,   \* chat page: the group's MESSAGES documents, in creation order
    subscribed,   \* chat page: the realtime subscription is established
    inbox,        \* chat page: create events sent to the page and not yet handled
    messagesPc,   \* chat page: where fetchMessages stands
    response,     \* chat page: the documents the listDocuments in flight will return
    messages      \* chat page: the messages state

vars == <<polls, votes, nextPollId, nextVoteId, pc, arg, pending, fetched, listed,
          found, result, interleaved, dbPolls, dbVotes, dbMessages, sent, req,
          bot, out, notified, searchResults, selectedItems, pollMeta,
          dbReactions, clients, ws, joins, joined, received,
          collection, subscribed, inbox, messagesPc, response, messages>>

storeVars == <<polls, votes, nextPollId, nextVoteId>>
chanVars == <<clients, ws, joins, joined>>
chatVars == <<collection, subscribed, inbox, messagesPc, response, messages>>
wsVars == <<chanVars, received, dbReactions, chatVars>>
serverVars == <<dbPolls, dbVotes, dbMessages, sent, req, wsVars>>
clientVars == <<storeVars, pc, arg, pending, fetched, listed, found, result, interleaved>>
localVars == <<pending, fetched, listed, found>>
sessionVars == <<searchResults, selectedItems>>
botVars == <<bot, out, notified, sessionVars, pollMeta>>

NoArg == [op |-> None, groupId |-> None, pollId |-> NoId, userId |-> None, choice |-> None]
NoResult == [status |-> None, value |-> NoId]
NoDoc == [groupId |-> None, creatorId |-> None, active |-> FALSE]

\* WebSocket connections; a socket not yet connected has readyState None
Sockets == {"w1", "w2"}
NoSocket == [readyState |-> None, userId |-> None, currentGroupId |-> None]
\* storage.getGroupById(g).members
Members == [g \in Groups |-> IF g = "g1" THEN {"u1", "u2"} ELSE {"u1"}]

\* two HTTP requests can be served at once
Handlers == {"h1", "h2"}
\* a field the request body lacks (or that is not a string)
Missing == "?"
NoBody == [type |-> Missing, title |-> Missing, choice |-> Missing]
\* request bodies: valid, bad type, empty title, a required field missing
PollBodies == {[NoBody EXCEPT !.type = "movie", !.title = "t"],
               [NoBody EXCEPT !.type = "bogus", !.title = "t"],
               [NoBody EXCEPT !.type = "place", !.title = ""],
               [NoBody EXCEPT !.type = "movie"]}
VoteBodies == {[NoBody EXCEPT !.choice = "join"], [NoBody EXCEPT !.choice = "no"],
               [NoBody EXCEPT !.choice = "bogus"], NoBody}
NoReq == [pc |-> "idle", groupId |-> None, userId |-> None, pollId |-> NoId,
          body |-> NoBody, found |-> NoId, status |-> None]

\* ------------------------------------------------------------- strings
\* A string is a sequence of one-character strings, so that trim, split,
\* toLowerCase, includes and the regular expressions act on its characters.
UpperAlphabet == <<"A", "B", "C", "D", "E", "F", "G", "H", "I", "J", "K", "L", "M",
                   "N", "O", "P", "Q", "R", "S", "T", "U", "V", "W", "X", "Y", "Z">>
LowerAlphabet == <<"a", "b", "c", "d", "e", "f", "g", "h", "i", "j", "k", "l", "m",
                   "n", "o", "p", "q", "r", "s", "t", "u", "v", "w", "x", "y", "z">>
Digits == {"0", "1", "2", "3", "4", "5", "6", "7", "8", "9"}
Space == " "

ToLowerChar(c) ==
    IF \E i \in DOMAIN UpperAlphabet : UpperAlphabet[i] = c
    THEN LowerAlphabet[CHOOSE i \in DOMAIN UpperAlphabet : UpperAlphabet[i] = c]
    ELSE c

\* String.prototype.toLowerCase
ToLowerCase(s) == [i \in 1..Len(s) |-> ToLowerChar(s[i])]

\* String.prototype.trim
Trim(s) ==
    LET ink == {i \in 1..Len(s) : s[i] # Space} IN
    IF ink = {} THEN <<>>
    ELSE SubSeq(s, CHOOSE i \in ink : \A j \in ink : i <= j,
                   CHOOSE i \in ink : \A j \in ink : j <= i)

\* String.prototype.startsWith, for a one-character prefix
StartsWith(s, c) == s # <<>> /\ s[1] = c

\* String.prototype.includes
Includes(s, sub) ==
    \E i \in 0..(Len(s) - Len(sub)) : SubSeq(s, i + 1, i + Len(sub)) = sub

\* s.split(/\s+/).filter(Boolean): the maximal runs of non-space characters
RECURSIVE SplitWords(_)
SplitWords(s) ==
    IF s = <<>> THEN <<>>
    ELSE IF s[1] = Space THEN SplitWords(Tail(s))
    ELSE LET stops == {i \in 1..Len(s) : s[i] = Space}
             n == IF stops = {} THEN Len(s)
                  ELSE (CHOOSE i \in stops : \A j \in stops : i <= j) - 1
         IN <<SubSeq(s, 1, n)>> \o SplitWords(SubSeq(s, n + 1, Len(s)))

\* Array.prototype.join(" ")
RECURSIVE JoinWords(_)
JoinWords(words) ==
    IF words = <<>> THEN <<>>
    ELSE IF Len(words) = 1 THEN words[1]
    ELSE words[1] \o <<Space>> \o JoinWords(Tail(words))

\* -------------------------------------------------------- PlanBot values
\* the command words of the switch in handlePlanbotCommand
CmdHelp == <<"h", "e", "l", "p">>
CmdPlanOutings == <<"p", "l", "a", "n", "o", "u", "t", "i", "n", "g", "s">>
CmdPlanMovies == <<"p", "l", "a", "n", "m", "o", "v", "i", "e", "s">>
CmdSelect == <<"s", "e", "l", "e", "c", "t">>
CmdWhen == <<"w", "h", "e", "n">>
CmdRsvp == <<"r", "s", "v", "p">>
CmdLock == <<"l", "o", "c", "k">>

\* input.trim().replace(/^\/?|^!/, ""): the first alternative, ^\/?, matches
\* at position 0 of every input (the "/" is optional, so it matches the empty
\* string when the input starts with anything else); the second alternative,
\* ^!, is therefore never tried and a leading "!" stays in place.
StripPrefix(s) == IF StartsWith(s, "/") THEN Tail(s) ELSE s

ParseArgs(input) ==
    LET parts == SplitWords(StripPrefix(Trim(input))) IN
    [cmd |-> IF parts = <<>> THEN <<>> ELSE ToLowerCase(Head(parts)),
     args |-> IF parts = <<>> THEN <<>> ELSE Tail(parts)]

\* trimmed.startsWith("/") || trimmed.startsWith("!")
IsCommand(input) == StartsWith(Trim(input), "/") \/ StartsWith(Trim(input), "!")

\* the case of the switch that cmd selects
Branch(cmd) ==
    CASE cmd = CmdHelp -> "help"
      [] cmd = CmdPlanOutings -> "planoutings"
      [] cmd = CmdPlanMovies -> "planmovies"
      [] cmd = CmdSelect -> "select"
      [] cmd = CmdWhen -> "when"
      [] cmd = CmdRsvp -> "rsvp"
      [] cmd = CmdLock -> "lock"
      [] OTHER -> "unknown"

\* a search result: PlaceResult (name) or MovieResult (title)
NoCandidate == [kind |-> None, name |-> <<>>]

\* a MESSAGES document written by PlanBot: which text, and the names it lists
Message(kind, items) == [kind |-> kind, items |-> items]

NoBot == [input |-> <<>>, groupId |-> None, userId |-> None, branch |-> None,
          args |-> <<>>, handled |-> None, lookup |-> <<>>, selected |-> NoCandidate,
          date |-> <<>>, time |-> <<>>, active |-> NoId, joiners |-> <<>>,
          tally |-> [c \in Choices |-> 0]]

\* the locals of handlePlanbotCommand once parseArgs has run
Call(g, u, input) ==
    [NoBot EXCEPT !.input = input, !.groupId = g, !.userId = u,
                  !.branch = Branch(ParseArgs(input).cmd), !.args = ParseArgs(input).args]

BotIdle ==
    /\ bot = [p \in Procs |-> NoBot]
    /\ out = [p \in Procs |-> <<>>]
    /\ notified = [p \in Procs |-> <<>>]
    /\ searchResults = [p \in Procs |-> [g \in Groups |-> <<>>]]
    /\ selectedItems = [p \in Procs |-> [g \in Groups |-> NoCandidate]]

Ok(v) == [status |-> "ok", value |-> v]
Err == [status |-> "error", value |-> NoId]

\* ------------------------------------------------------------ store reads
PollIds == DOMAIN polls
VoteIds == DOMAIN votes

\* listDocuments(POLLS, [equal("groupId", g)])
PollsOfGroup(g) == {i \in PollIds : polls[i].groupId = g}

\* listDocuments(POLLS, [equal("groupId", g), equal("active", true)])
ActivePollsOfGroup(g) == {i \in PollIds : polls[i].groupId = g /\ polls[i].active}

\* listDocuments(VOTES, [equal("pollId", id)])
VotesOfPoll(id) == {v \in VoteIds : votes[v].pollId = id}

\* listDocuments(VOTES, [equal("pollId", id), equal("userId", u)])
VotesOfPollUser(id, u) == {v \in VoteIds : votes[v].pollId = id /\ votes[v].userId = u}

Remove(f, k) == [i \in (DOMAIN f) \ {k} |-> f[i]]

\* ------------------------------------------------------------ bookkeeping
\* A step of p is an interleaving for every other call that is under way.
Touch(p) ==
    interleaved' = [q \in Procs |->
        IF q = p THEN interleaved[p] ELSE (interleaved[q] \/ pc[q] # "idle")]

Begin(p) ==
    interleaved' = [q \in Procs |->
        IF q = p THEN FALSE ELSE (interleaved[q] \/ pc[q] # "idle")]

\* the call returns or throws; requests still in flight stay in pending
Finish(p, r) ==
    /\ pc' = [pc EXCEPT ![p] = "done"]
    /\ result' = [result EXCEPT ![p] = r]

Goto(p, l) ==
    /\ pc' = [pc EXCEPT ![p] = l]
    /\ UNCHANGED result

\* the chat page has just mounted: no message in the group, nothing fetched
ChatIdle ==
    /\ collection = <<>>
    /\ subscribed = FALSE
    /\ inbox = <<>>
    /\ messagesPc = "mounted"
    /\ response = <<>>
    /\ messages = <<>>

\* no reaction stored, the clients map empty, no socket connected
ChannelIdle ==
    /\ ChatIdle
    /\ dbReactions = {}
    /\ clients = [g \in Groups |-> {}]
    /\ ws = [w \in Sockets |-> NoSocket]
    /\ joins = {}
    /\ joined = [w \in Sockets |-> None]
    /\ received = [w \in Sockets |-> <<>>]

Init ==
    /\ polls = <<>>
    /\ votes = <<>>
    /\ nextPollId = 1
    /\ nextVoteId = 1
    /\ pc = [p \in Procs |-> "idle"]
    /\ arg = [p \in Procs |-> NoArg]
    /\ pending = [p \in Procs |-> {}]
    /\ fetched = [p \in Procs |-> NoDoc]
    /\ listed = [p \in Procs |-> {}]
    /\ found = [p \in Procs |-> NoId]
    /\ result = [p \in Procs |-> NoResult]
    /\ interleaved = [p \in Procs |-> FALSE]
    /\ dbPolls = <<>>
    /\ dbVotes = <<>>
    /\ dbMessages = <<>>
    /\ sent = <<>>
    /\ req = [h \in Handlers |-> NoReq]
    /\ BotIdle
    /\ pollMeta = <<>>
    /\ ChannelIdle

\* ------------------------------------------------------------ createPoll
\* calls that have yet to insert a poll (keeps nextPollId within MaxPolls)
PollRoom(p) ==
    nextPollId + Cardinality({q \in Procs \ {p} : pc[q] \in {"cp_deact", "cp_create"}})
        <= MaxPolls

\* calls that have yet to insert a vote (keeps nextVoteId within MaxVotes)
VotingRoom(p) ==
    nextVoteId + Cardinality({q \in Procs \ {p} : pc[q] = "cv_write" /\ found[q] = NoId})
        <= MaxVotes

\* createPoll that skips Step 2 (deactivates nothing)
CreatePollListKeepsActive(p, g, u, ok) ==
    /\ pc[p] = "idle"
    /\ PollRoom(p)
    /\ arg' = [arg EXCEPT ![p] = [NoArg EXCEPT !.op = "createPoll", !.groupId = g, !.userId = u]]
    /\ Begin(p)
    /\ IF ok
       THEN /\ listed' = [listed EXCEPT ![p] = {i \in PollsOfGroup(g) : polls[i].active}]
            /\ pending' = [pending EXCEPT ![p] = {}]
            /\ Goto(p, "cp_create")
       ELSE /\ Finish(p, Err)
            /\ UNCHANGED <<pending, listed>>
    /\ UNCHANGED <<storeVars, fetched, found, serverVars, botVars>>

\* Step 1: list the group's polls; Step 2 issues one update per active poll.
CreatePollList(p, g, u, ok) ==
    /\ pc[p] = "idle"
    /\ PollRoom(p)
    /\ arg' = [arg EXCEPT ![p] = [NoArg EXCEPT !.op = "createPoll", !.groupId = g, !.userId = u]]
    /\ Begin(p)
    /\ IF ok
       THEN LET active == {i \in PollsOfGroup(g) : polls[i].active} IN
            /\ listed' = [listed EXCEPT ![p] = active]
            /\ pending' = [pending EXCEPT ![p] = active]
            /\ Goto(p, IF active = {} THEN "cp_create" ELSE "cp_deact")
       ELSE /\ Finish(p, Err)
            /\ UNCHANGED <<pending, listed>>
    /\ UNCHANGED <<storeVars, fetched, found, serverVars, botVars>>

\* One updateDocument(poll, {active: false}) of the Promise.all settles.  The
\* first rejection makes createPoll throw; the other requests stay in flight.
CreatePollDeactivate(p, id, ok) ==
    /\ arg[p].op = "createPoll"
    /\ pc[p] \in {"cp_deact", "done"}
    /\ id \in pending[p]
    /\ ok => id \in PollIds
    /\ polls' = IF ok THEN [polls EXCEPT ![id].active = FALSE] ELSE polls
    /\ pending' = [pending EXCEPT ![p] = @ \ {id}]
    /\ IF pc[p] = "done" THEN UNCHANGED <<pc, result>>
       ELSE IF ~ok THEN Finish(p, Err)
       ELSE IF pending[p] = {id} THEN Goto(p, "cp_create")
       ELSE UNCHANGED <<pc, result>>
    /\ Touch(p)
    /\ UNCHANGED <<votes, nextPollId, nextVoteId, arg, fetched, listed, found, serverVars, botVars>>

\* Step 3: createDocument(POLLS, {..., active: true})
CreatePollInsert(p, ok) ==
    /\ pc[p] = "cp_create"
    /\ IF ok
       THEN /\ polls' = polls @@ (nextPollId :>
                [groupId |-> arg[p].groupId, creatorId |-> arg[p].userId, active |-> TRUE])
            /\ nextPollId' = nextPollId + 1
            /\ Finish(p, Ok(nextPollId))
       ELSE /\ Finish(p, Err)
            /\ UNCHANGED <<polls, nextPollId>>
    /\ Touch(p)
    /\ UNCHANGED <<votes, nextVoteId, arg, localVars, serverVars, botVars>>

\* ------------------------------------------------------------ deletePoll
\* deletePoll without the creator check
DeletePollGetAnyone(p, id, u, ok) ==
    /\ pc[p] = "idle"
    /\ id \in 1..(nextPollId - 1)
    /\ arg' = [arg EXCEPT ![p] = [NoArg EXCEPT !.op = "deletePoll", !.pollId = id, !.userId = u]]
    /\ Begin(p)
    /\ IF ok /\ id \in PollIds
       THEN /\ fetched' = [fetched EXCEPT ![p] = polls[id]]
            /\ Goto(p, "dp_list")
       ELSE /\ fetched' = [fetched EXCEPT ![p] = NoDoc]
            /\ Finish(p, Err)
    /\ UNCHANGED <<storeVars, pending, listed, found, serverVars, botVars>>

\* getDocument(POLLS, pollId), then the creator check
DeletePollGet(p, id, u, ok) ==
    /\ pc[p] = "idle"
    /\ id \in 1..(nextPollId - 1)
    /\ arg' = [arg EXCEPT ![p] = [NoArg EXCEPT !.op = "deletePoll", !.pollId = id, !.userId = u]]
    /\ Begin(p)
    /\ fetched' = [fetched EXCEPT ![p] = IF ok /\ id \in PollIds THEN polls[id] ELSE NoDoc]
    /\ IF ok /\ id \in PollIds /\ polls[id].creatorId = u
       THEN Goto(p, "dp_list")
       ELSE Finish(p, Err)
    /\ UNCHANGED <<storeVars, pending, listed, found, serverVars, botVars>>

\* deletePoll that does not delete the poll's votes
DeletePollListVotesSkips(p, ok) ==
    /\ pc[p] = "dp_list"
    /\ IF ok
       THEN /\ listed' = [listed EXCEPT ![p] = VotesOfPoll(arg[p].pollId)]
            /\ pending' = [pending EXCEPT ![p] = {}]
            /\ Goto(p, "dp_delpoll")
       ELSE /\ Finish(p, Err)
            /\ UNCHANGED <<pending, listed>>
    /\ Touch(p)
    /\ UNCHANGED <<storeVars, arg, fetched, found, serverVars, botVars>>

\* listDocuments(VOTES, pollId) and issue one deleteDocument per vote
DeletePollListVotes(p, ok) ==
    /\ pc[p] = "dp_list"
    /\ IF ok
       THEN LET vs == VotesOfPoll(arg[p].pollId) IN
            /\ listed' = [listed EXCEPT ![p] = vs]
            /\ pending' = [pending EXCEPT ![p] = vs]
            /\ Goto(p, IF vs = {} THEN "dp_delpoll" ELSE "dp_delvotes")
       ELSE /\ Finish(p, Err)
            /\ UNCHANGED <<pending, listed>>
    /\ Touch(p)
    /\ UNCHANGED <<storeVars, arg, fetched, found, serverVars, botVars>>

\* One deleteDocument(VOTES, vote) of the Promise.all settles.  The first
\* rejection makes deletePoll throw; the other requests stay in flight.
DeletePollDeleteVote(p, v, ok) ==
    /\ arg[p].op = "deletePoll"
    /\ pc[p] \in {"dp_delvotes", "done"}
    /\ v \in pending[p]
    /\ ok => v \in VoteIds
    /\ votes' = IF ok THEN Remove(votes, v) ELSE votes
    /\ pending' = [pending EXCEPT ![p] = @ \ {v}]
    /\ IF pc[p] = "done" THEN UNCHANGED <<pc, result>>
       ELSE IF ~ok THEN Finish(p, Err)
       ELSE IF pending[p] = {v} THEN Goto(p, "dp_delpoll")
       ELSE UNCHANGED <<pc, result>>
    /\ Touch(p)
    /\ UNCHANGED <<polls, nextPollId, nextVoteId, arg, fetched, listed, found, serverVars, botVars>>

\* deleteDocument(POLLS, pollId)
DeletePollDelete(p, ok) ==
    /\ pc[p] = "dp_delpoll"
    /\ ok => arg[p].pollId \in PollIds
    /\ IF ok
       THEN /\ polls' = Remove(polls, arg[p].pollId)
            /\ Finish(p, Ok(arg[p].pollId))
       ELSE /\ Finish(p, Err)
            /\ UNCHANGED polls
    /\ Touch(p)
    /\ UNCHANGED <<votes, nextPollId, nextVoteId, arg, localVars, serverVars, botVars>>

\* -------------------------------------------------------- deactivatePoll
\* getDocument(POLLS, pollId), then the creator check
DeactivatePollGet(p, id, u, ok) ==
    /\ pc[p] = "idle"
    /\ id \in 1..(nextPollId - 1)
    /\ arg' = [arg EXCEPT ![p] = [NoArg EXCEPT !.op = "deactivatePoll", !.pollId = id, !.userId = u]]
    /\ Begin(p)
    /\ fetched' = [fetched EXCEPT ![p] = IF ok /\ id \in PollIds THEN polls[id] ELSE NoDoc]
    /\ IF ok /\ id \in PollIds /\ polls[id].creatorId = u
       THEN Goto(p, "dk_upd")
       ELSE Finish(p, Err)
    /\ UNCHANGED <<storeVars, pending, listed, found, serverVars, botVars>>

\* updateDocument(pollId, {active: false})
DeactivatePollUpdate(p, ok) ==
    /\ pc[p] = "dk_upd"
    /\ ok => arg[p].pollId \in PollIds
    /\ IF ok
       THEN /\ polls' = [polls EXCEPT ![arg[p].pollId].active = FALSE]
            /\ Finish(p, Ok(arg[p].pollId))
       ELSE /\ Finish(p, Err)
            /\ UNCHANGED polls
    /\ Touch(p)
    /\ UNCHANGED <<votes, nextPollId, nextVoteId, arg, localVars, serverVars, botVars>>

\* ---------------------------------------------------------- activatePoll
\* getDocument(POLLS, pollId), then the creator check
ActivatePollGet(p, id, u, ok) ==
    /\ pc[p] = "idle"
    /\ id \in 1..(nextPollId - 1)
    /\ arg' = [arg EXCEPT ![p] = [NoArg EXCEPT !.op = "activatePoll", !.pollId = id, !.userId = u]]
    /\ Begin(p)
    /\ fetched' = [fetched EXCEPT ![p] = IF ok /\ id \in PollIds THEN polls[id] ELSE NoDoc]
    /\ IF ok /\ id \in PollIds /\ polls[id].creatorId = u
       THEN Goto(p, "ap_list")
       ELSE Finish(p, Err)
    /\ UNCHANGED <<storeVars, pending, listed, found, serverVars, botVars>>

\* activatePoll that leaves the group's other active polls alone
ActivatePollListKeepsSiblings(p, ok) ==
    /\ pc[p] = "ap_list"
    /\ IF ok
       THEN /\ listed' = [listed EXCEPT ![p] = ActivePollsOfGroup(fetched[p].groupId)]
            /\ pending' = [pending EXCEPT ![p] = {}]
            /\ Goto(p, "ap_act")
       ELSE /\ Finish(p, Err)
            /\ UNCHANGED <<pending, listed>>
    /\ Touch(p)
    /\ UNCHANGED <<storeVars, arg, fetched, found, serverVars, botVars>>

\* list the active polls of the fetched poll's group and issue one update per
\* listed poll other than pollId
ActivatePollList(p, ok) ==
    /\ pc[p] = "ap_list"
    /\ IF ok
       THEN LET existing == ActivePollsOfGroup(fetched[p].groupId)
                others == existing \ {arg[p].pollId} IN
            /\ listed' = [listed EXCEPT ![p] = existing]
            /\ pending' = [pending EXCEPT ![p] = others]
            /\ Goto(p, IF others = {} THEN "ap_act" ELSE "ap_deact")
       ELSE /\ Finish(p, Err)
            /\ UNCHANGED <<pending, listed>>
    /\ Touch(p)
    /\ UNCHANGED <<storeVars, arg, fetched, found, serverVars, botVars>>

\* One updateDocument(sibling, {active: false}) of the Promise.all settles.
ActivatePollDeactivate(p, id, ok) ==
    /\ arg[p].op = "activatePoll"
    /\ pc[p] \in {"ap_deact", "done"}
    /\ id \in pending[p]
    /\ ok => id \in PollIds
    /\ polls' = IF ok THEN [polls EXCEPT ![id].active = FALSE] ELSE polls
    /\ pending' = [pending EXCEPT ![p] = @ \ {id}]
    /\ IF pc[p] = "done" THEN UNCHANGED <<pc, result>>
       ELSE IF ~ok THEN Finish(p, Err)
       ELSE IF pending[p] = {id} THEN Goto(p, "ap_act")
       ELSE UNCHANGED <<pc, result>>
    /\ Touch(p)
    /\ UNCHANGED <<votes, nextPollId, nextVoteId, arg, fetched, listed, found, serverVars, botVars>>

\* updateDocument(pollId, {active: true})
ActivatePollUpdate(p, ok) ==
    /\ pc[p] = "ap_act"
    /\ ok => arg[p].pollId \in PollIds
    /\ IF ok
       THEN /\ polls' = [polls EXCEPT ![arg[p].pollId].active = TRUE]
            /\ Finish(p, Ok(arg[p].pollId))
       ELSE /\ Finish(p, Err)
            /\ UNCHANGED polls
    /\ Touch(p)
    /\ UNCHANGED <<votes, nextPollId, nextVoteId, arg, localVars, serverVars, botVars>>

\* --------------------------------------------------------- getActivePoll
\* documents[0] || null of an unordered query with limit 1: any active poll
\* of the group may come first.
GetActivePollReturns(g) ==
    IF ActivePollsOfGroup(g) = {} THEN {NoId} ELSE ActivePollsOfGroup(g)

\* one listDocuments; a failed read is caught and null is returned
GetActivePoll(p, g, ok) ==
    /\ pc[p] = "idle"
    /\ arg' = [arg EXCEPT ![p] = [NoArg EXCEPT !.op = "getActivePoll", !.groupId = g]]
    /\ Begin(p)
    /\ IF ok
       THEN \E v \in GetActivePollReturns(g) : Finish(p, Ok(v))
       ELSE Finish(p, Ok(NoId))
    /\ UNCHANGED <<storeVars, localVars, serverVars, botVars>>

\* -------------------------------------------------------------- castVote
\* listDocuments(VOTES, pollId, userId); documents[0] of an unordered query
CastVoteLookup(p, id, u, c, ok) ==
    /\ pc[p] = "idle"
    /\ id \in 1..(nextPollId - 1)
    /\ arg' = [arg EXCEPT ![p] =
                 [NoArg EXCEPT !.op = "castVote", !.pollId = id, !.userId = u, !.choice = c]]
    /\ Begin(p)
    /\ IF ok
       THEN /\ IF VotesOfPollUser(id, u) = {}
               THEN /\ VotingRoom(p)
                    /\ found' = [found EXCEPT ![p] = NoId]
               ELSE \E v \in VotesOfPollUser(id, u) : found' = [found EXCEPT ![p] = v]
            /\ Goto(p, "cv_write")
       ELSE /\ Finish(p, Err)
            /\ UNCHANGED found
    /\ UNCHANGED <<storeVars, pending, fetched, listed, serverVars, botVars>>

\* updateDocument(existing, {choice}) or createDocument({pollId, userId, choice})
CastVoteWrite(p, ok) ==
    /\ pc[p] = "cv_write"
    /\ (ok /\ found[p] # NoId) => found[p] \in VoteIds
    /\ IF ~ok
       THEN /\ Finish(p, Err)
            /\ UNCHANGED <<votes, nextVoteId>>
       ELSE IF found[p] # NoId
       THEN /\ votes' = [votes EXCEPT ![found[p]].choice = arg[p].choice]
            /\ Finish(p, Ok(found[p]))
            /\ UNCHANGED nextVoteId
       ELSE /\ votes' = votes @@ (nextVoteId :>
                [pollId |-> arg[p].pollId, userId |-> arg[p].userId, choice |-> arg[p].choice])
            /\ nextVoteId' = nextVoteId + 1
            /\ Finish(p, Ok(nextVoteId))
    /\ Touch(p)
    /\ UNCHANGED <<polls, nextPollId, arg, localVars, serverVars, botVars>>

\* The caller takes the outcome; the client is free for the next call once
\* every request it issued has settled.
Return(p) ==
    /\ pc[p] = "done"
    /\ pending[p] = {}
    /\ pc' = [pc EXCEPT ![p] = "idle"]
    /\ arg' = [arg EXCEPT ![p] = NoArg]
    /\ fetched' = [fetched EXCEPT ![p] = NoDoc]
    /\ listed' = [listed EXCEPT ![p] = {}]
    /\ found' = [found EXCEPT ![p] = NoId]
    /\ result' = [result EXCEPT ![p] = NoResult]
    /\ interleaved' = [interleaved EXCEPT ![p] = FALSE]
    /\ UNCHANGED <<storeVars, pending, serverVars, botVars>>

\* ------------------------------------------------- server/routes.ts
\* insertPollSchema / insertVoteSchema: createInsertSchema(...).pick(...) of
\* text columns, so parse accepts any body whose picked fields are strings.
InsertPollSchemaParses(body) == body.type # Missing /\ body.title # Missing
InsertVoteSchemaParses(body) == body.choice # Missing

DbVotesOf(id, u) == {v \in DOMAIN dbVotes : dbVotes[v].pollId = id /\ dbVotes[v].userId = u}

\* broadcastToGroup: the event goes to every socket of the group's set whose
\* readyState is OPEN
BroadcastToGroup(g, data) ==
    /\ sent' = Append(sent, data)
    /\ received' = [w \in Sockets |->
                       IF w \in clients[g] /\ ws[w].readyState = "OPEN"
                       THEN Append(received[w], data) ELSE received[w]]

Respond(h, st) == req' = [req EXCEPT ![h] = [NoReq EXCEPT !.pc = "responded", !.status = st]]

\* POST /api/groups/:id/polls: parse, then storage.createPoll (a plain insert;
\* the active column defaults to true).  A throw answers 400.
PostPollInsert(h, g, u, body, ok) ==
    /\ req[h].pc = "idle"
    /\ Cardinality(DOMAIN dbPolls) < MaxDbPolls
    /\ IF InsertPollSchemaParses(body) /\ ok
       THEN LET id == Cardinality(DOMAIN dbPolls) + 1 IN
            /\ dbPolls' = dbPolls @@ (id :> [groupId |-> g, createdBy |-> u,
                              type |-> body.type, title |-> body.title, active |-> TRUE])
            /\ req' = [req EXCEPT ![h] = [NoReq EXCEPT !.pc = "pp_message", !.groupId = g,
                              !.pollId = id]]
       ELSE /\ Respond(h, "400")
            /\ UNCHANGED dbPolls
    /\ UNCHANGED <<dbVotes, dbMessages, sent, clientVars, botVars, wsVars>>

\* storage.createMessage for the poll commits (or throws: 400, the poll stays)
PostPollMessage(h, ok) ==
    /\ req[h].pc = "pp_message"
    /\ IF ok
       THEN /\ dbMessages' = Append(dbMessages,
                              [groupId |-> req[h].groupId, pollId |-> req[h].pollId])
            /\ req' = [req EXCEPT ![h].pc = "pp_broadcast"]
       ELSE /\ Respond(h, "400")
            /\ UNCHANGED dbMessages
    /\ UNCHANGED <<dbPolls, dbVotes, sent, clientVars, botVars, wsVars>>

\* broadcastToGroup(id, {type: "poll", poll}) and res.json(poll)
PostPollBroadcast(h) ==
    /\ req[h].pc = "pp_broadcast"
    /\ BroadcastToGroup(req[h].groupId, [type |-> "poll", groupId |-> req[h].groupId,
                                          id |-> req[h].pollId])
    /\ Respond(h, "200")
    /\ UNCHANGED <<dbPolls, dbVotes, dbMessages, clientVars, botVars, chanVars, dbReactions, chatVars>>

\* POST /api/polls/:id/vote: parse, then createOrUpdateVote's select
PostVoteSelect(h, id, u, body, ok) ==
    /\ req[h].pc = "idle"
    /\ id \in 1..MaxDbPolls
    /\ IF InsertVoteSchemaParses(body) /\ ok
       THEN /\ \/ /\ DbVotesOf(id, u) = {}
                  /\ Cardinality(DOMAIN dbVotes) + Cardinality({k \in Handlers \ {h} :
                         req[k].pc = "pv_write" /\ req[k].found = NoId}) < MaxDbVotes
                  /\ req' = [req EXCEPT ![h] = [NoReq EXCEPT !.pc = "pv_write", !.userId = u,
                                !.pollId = id, !.body = body]]
               \/ \E v \in DbVotesOf(id, u) :
                     req' = [req EXCEPT ![h] = [NoReq EXCEPT !.pc = "pv_write", !.userId = u,
                                !.pollId = id, !.body = body, !.found = v]]
       ELSE Respond(h, "400")
    /\ UNCHANGED <<dbPolls, dbVotes, dbMessages, sent, clientVars, botVars, wsVars>>

\* createOrUpdateVote's update or insert (votes.poll_id references polls.id),
\* then res.json(vote); the vote is not broadcast
PostVoteWrite(h, ok) ==
    /\ req[h].pc = "pv_write"
    /\ IF ok /\ req[h].found # NoId
       THEN /\ dbVotes' = [dbVotes EXCEPT ![req[h].found].choice = req[h].body.choice]
            /\ Respond(h, "200")
       ELSE IF ok /\ req[h].pollId \in DOMAIN dbPolls
       THEN /\ dbVotes' = dbVotes @@ ((Cardinality(DOMAIN dbVotes) + 1) :>
                  [pollId |-> req[h].pollId, userId |-> req[h].userId,
                   choice |-> req[h].body.choice])
            /\ Respond(h, "200")
       ELSE /\ Respond(h, "400")
            /\ UNCHANGED dbVotes
    /\ UNCHANGED <<dbPolls, dbMessages, sent, clientVars, botVars, wsVars>>

\* insertMessageSchema picks groupId, text and pollId; text is required
MessageBodies == {[text |-> "hi"], [text |-> Missing]}
InsertMessageSchemaParses(body) == body.text # Missing

\* POST /api/groups/:id/messages: parse, then storage.createMessage (a plain
\* insert).  A throw answers 400.
PostMessageInsert(h, g, u, body, ok) ==
    /\ req[h].pc = "idle"
    /\ Len(dbMessages) < MaxDbMessages
    /\ IF InsertMessageSchemaParses(body) /\ ok
       THEN /\ dbMessages' = Append(dbMessages, [groupId |-> g, pollId |-> NoId])
            /\ req' = [req EXCEPT ![h] = [NoReq EXCEPT !.pc = "pm_broadcast", !.groupId = g,
                              !.found = Len(dbMessages) + 1]]
       ELSE /\ Respond(h, "400")
            /\ UNCHANGED dbMessages
    /\ UNCHANGED <<dbPolls, dbVotes, sent, clientVars, botVars, wsVars>>

\* broadcastToGroup(id, {type: "message", message}) and res.json(message)
PostMessageBroadcast(h) ==
    /\ req[h].pc = "pm_broadcast"
    /\ BroadcastToGroup(req[h].groupId, [type |-> "message", groupId |-> req[h].groupId,
                                          id |-> req[h].found])
    /\ Respond(h, "200")
    /\ UNCHANGED <<dbPolls, dbVotes, dbMessages, clientVars, botVars, chanVars, dbReactions, chatVars>>

\* POST /api/messages/:id/reactions: parse, then toggleReaction's select
PostReactionSelect(h, m, u, ok) ==
    /\ req[h].pc = "idle"
    /\ m \in 1..MaxDbMessages
    /\ IF ok
       THEN req' = [req EXCEPT ![h] = [NoReq EXCEPT !.pc = "pr_write", !.userId = u,
                          !.found = m,
                          !.status = IF [messageId |-> m, userId |-> u] \in dbReactions
                                     THEN "existing" ELSE None]]
       ELSE Respond(h, "400")
    /\ UNCHANGED <<dbPolls, dbVotes, dbMessages, sent, clientVars, botVars, wsVars>>

\* toggleReaction's delete of the row found, or insert (reactions.message_id
\* references messages.id)
PostReactionWrite(h, ok) ==
    /\ req[h].pc = "pr_write"
    /\ LET r == [messageId |-> req[h].found, userId |-> req[h].userId] IN
       IF ok /\ req[h].status = "existing"
       THEN /\ dbReactions' = dbReactions \ {r}
            /\ req' = [req EXCEPT ![h].pc = "pr_list"]
       ELSE IF ok /\ req[h].found \in 1..Len(dbMessages)
       THEN /\ dbReactions' = dbReactions \cup {r}
            /\ req' = [req EXCEPT ![h].pc = "pr_list"]
       ELSE /\ Respond(h, "400")
            /\ UNCHANGED dbReactions
    /\ UNCHANGED <<dbPolls, dbVotes, dbMessages, sent, clientVars, botVars, chanVars, received, chatVars>>

\* await storage.getMessagesByGroupId(""), then res.json({success: true});
\* nothing is broadcast
PostReactionList(h, ok) ==
    /\ req[h].pc = "pr_list"
    /\ Respond(h, IF ok THEN "200" ELSE "400")
    /\ UNCHANGED <<dbPolls, dbVotes, dbMessages, sent, clientVars, botVars, wsVars>>

\* wss.on("connection"): without a session cookie the socket is closed with
\* 4401 before any handler is registered
WsConnect(w, cookie) ==
    /\ ws[w].readyState = None
    /\ ws' = [ws EXCEPT ![w].readyState = IF cookie THEN "OPEN" ELSE "CLOSED"]
    /\ UNCHANGED <<dbPolls, dbVotes, dbMessages, sent, req, clientVars, botVars,
                   clients, joins, joined, received, dbReactions, chatVars>>

\* message {type: "auth", userId}: userId = message.userId
WsAuth(w, u) ==
    /\ ws[w].readyState = "OPEN"
    /\ ws' = [ws EXCEPT ![w].userId = u]
    /\ UNCHANGED <<dbPolls, dbVotes, dbMessages, sent, req, clientVars, botVars,
                   clients, joins, joined, received, dbReactions, chatVars>>

\* message {type: "join", groupId} with userId set: the handler awaits
\* storage.getGroupById(message.groupId)
WsJoin(w, g) ==
    /\ ws[w].readyState = "OPEN"
    /\ ws[w].userId # None
    /\ [socket |-> w, groupId |-> g] \notin joins
    /\ joins' = joins \cup {[socket |-> w, groupId |-> g]}
    /\ UNCHANGED <<dbPolls, dbVotes, dbMessages, sent, req, clientVars, botVars,
                   clients, ws, joined, received, dbReactions, chatVars>>

\* a join that leaves the socket in its previous group's set
WsJoinResolveStays(w, g, ok) ==
    /\ [socket |-> w, groupId |-> g] \in joins
    /\ joins' = joins \ {[socket |-> w, groupId |-> g]}
    /\ IF ~ok
       THEN UNCHANGED <<clients, ws, joined, received>>
       ELSE IF ws[w].userId \notin Members[g]
       THEN UNCHANGED <<clients, ws, joined, received>>
       ELSE /\ clients' = [clients EXCEPT ![g] = @ \cup {w}]
            /\ ws' = [ws EXCEPT ![w].currentGroupId = g]
            /\ joined' = [joined EXCEPT ![w] = g]
            /\ UNCHANGED received
    /\ UNCHANGED <<dbPolls, dbVotes, dbMessages, sent, req, clientVars, botVars, dbReactions,
                   chatVars>>

\* the lookup settles.  A throw is caught and logged.  A non-member is sent an
\* error reply (not a change event) and nothing else happens.  A member leaves
\* currentGroupId's set and is added to the new group's set.
WsJoinResolve(w, g, ok) ==
    /\ [socket |-> w, groupId |-> g] \in joins
    /\ joins' = joins \ {[socket |-> w, groupId |-> g]}
    /\ IF ~ok
       THEN UNCHANGED <<clients, ws, joined, received>>
       ELSE IF ws[w].userId \notin Members[g]
       THEN UNCHANGED <<clients, ws, joined, received>>
       ELSE /\ clients' = [k \in Groups |->
                              IF k = g THEN clients[k] \cup {w}
                              ELSE IF k = ws[w].currentGroupId THEN clients[k] \ {w}
                              ELSE clients[k]]
            /\ ws' = [ws EXCEPT ![w].currentGroupId = g]
            /\ joined' = [joined EXCEPT ![w] = g]
            /\ UNCHANGED received
    /\ UNCHANGED <<dbPolls, dbVotes, dbMessages, sent, req, clientVars, botVars, dbReactions,
                   chatVars>>

\* ws.on("close"): the socket leaves currentGroupId's set
WsClose(w) ==
    /\ ws[w].readyState = "OPEN"
    /\ ws' = [ws EXCEPT ![w].readyState = "CLOSED"]
    /\ clients' = [k \in Groups |->
                      IF k = ws[w].currentGroupId THEN clients[k] \ {w} ELSE clients[k]]
    /\ UNCHANGED <<dbPolls, dbVotes, dbMessages, sent, req, clientVars, botVars,
                   joins, joined, received, dbReactions, chatVars>>

\* the response is on the wire; the handler serves the next request
ServerReturn(h) ==
    /\ req[h].pc = "responded"
    /\ req' = [req EXCEPT ![h] = NoReq]
    /\ UNCHANGED <<dbPolls, dbVotes, dbMessages, sent, clientVars, botVars, wsVars>>

\* ------------------------------------------------- pages/group-chat.tsx
NotChat == <<storeVars, pc, arg, pending, fetched, listed, found, result, interleaved,
             dbPolls, dbVotes, dbMessages, sent, req, botVars, chanVars, received, dbReactions>>

\* client.subscribe(MESSAGES documents): the realtime connection is established
ChatSubscribe ==
    /\ ~subscribed
    /\ subscribed' = TRUE
    /\ UNCHANGED <<NotChat, collection, inbox, messagesPc, response, messages>>

\* some member creates a message of the group; a subscribed page is sent the
\* create event
ChatCreate ==
    /\ Len(collection) < MaxChatMessages
    /\ collection' = Append(collection, Len(collection) + 1)
    /\ inbox' = IF subscribed THEN Append(inbox, Len(collection) + 1) ELSE inbox
    /\ UNCHANGED <<NotChat, subscribed, messagesPc, response, messages>>

\* fetchMessages: listDocuments(groupId, orderAsc($createdAt)) reads the collection
FetchMessagesList ==
    /\ messagesPc = "mounted"
    /\ messagesPc' = "fetching"
    /\ response' = collection
    /\ UNCHANGED <<NotChat, collection, subscribed, inbox, messages>>

\* the fetch settles: setMessages(response.documents), or the catch logs
FetchMessagesSet(ok) ==
    /\ messagesPc = "fetching"
    /\ messagesPc' = IF ok THEN "loaded" ELSE "failed"
    /\ messages' = IF ok THEN response ELSE messages
    /\ response' = <<>>
    /\ UNCHANGED <<NotChat, collection, subscribed, inbox>>

\* the subscription callback on a create event of this group:
\* setMessages(prev => [...prev, payload])
OnMessageCreate ==
    /\ inbox # <<>>
    /\ messages' = Append(messages, Head(inbox))
    /\ inbox' = Tail(inbox)
    /\ UNCHANGED <<NotChat, collection, subscribed, messagesPc, response>>

\* ------------------------------------------------- lib/planbot.ts
\* handlePlanbotCommand returns {handled: h}, or rejects (h = "rejected")
BotFinish(p, b, h) ==
    /\ pc' = [pc EXCEPT ![p] = "bot_done"]
    /\ bot' = [bot EXCEPT ![p] = [b EXCEPT !.handled = h]]

BotGoto(p, b, l) ==
    /\ pc' = [pc EXCEPT ![p] = l]
    /\ bot' = [bot EXCEPT ![p] = b]

\* sendSystemMessage: createDocument in MESSAGES, or throws
SendSystemMessage(p, msg, ok) ==
    out' = [out EXCEPT ![p] = IF ok THEN Append(@, msg) ELSE @]

\* await sendSystemMessage(..); return {handled: true} with no try around it
Reply(p, b, msg, ok) ==
    /\ SendSystemMessage(p, msg, ok)
    /\ BotFinish(p, b, IF ok THEN "true" ELSE "rejected")

\* handlePlanbotCommand that drops the group's selection on plain chat
HandleNotCommandForgets(p, g, u, input) ==
    /\ pc[p] = "idle"
    /\ ~IsCommand(input)
    /\ Begin(p)
    /\ BotFinish(p, [NoBot EXCEPT !.input = input, !.groupId = g, !.userId = u], "false")
    /\ selectedItems' = [selectedItems EXCEPT ![p][g] = NoCandidate]
    /\ UNCHANGED <<storeVars, arg, localVars, result, serverVars,
                   out, notified, searchResults, pollMeta>>

\* input that starts with neither "/" nor "!": return {handled: false}
HandleNotCommand(p, g, u, input) ==
    /\ pc[p] = "idle"
    /\ ~IsCommand(input)
    /\ Begin(p)
    /\ BotFinish(p, [NoBot EXCEPT !.input = input, !.groupId = g, !.userId = u], "false")
    /\ UNCHANGED <<storeVars, arg, localVars, result, serverVars,
                   out, notified, sessionVars, pollMeta>>

\* case "help"
Help(p, g, u, input, ok) ==
    /\ pc[p] = "idle"
    /\ IsCommand(input)
    /\ Call(g, u, input).branch = "help"
    /\ Begin(p)
    /\ Reply(p, Call(g, u, input), Message("help", <<>>), ok)
    /\ UNCHANGED <<storeVars, arg, localVars, result, serverVars,
                   notified, sessionVars, pollMeta>>

\* default: the "Unknown command" system message
UnknownCommand(p, g, u, input, ok) ==
    /\ pc[p] = "idle"
    /\ IsCommand(input)
    /\ Call(g, u, input).branch = "unknown"
    /\ Begin(p)
    /\ Reply(p, Call(g, u, input), Message("unknown", <<>>), ok)
    /\ UNCHANGED <<storeVars, arg, localVars, result, serverVars,
                   notified, sessionVars, pollMeta>>

\* ------------------------------------------- suggestOutings / suggestMovies
\* Array.prototype.slice(0, n)
Take(list, n) == SubSeq(list, 1, IF Len(list) < n THEN Len(list) ELSE n)

Names(list) == [i \in 1..Len(list) |-> list[i].name]

\* /planOutings: the usage message, or the "Searching" message (outside the try)
SuggestOutingsStart(p, g, u, input, ok) ==
    /\ pc[p] = "idle"
    /\ IsCommand(input)
    /\ Call(g, u, input).branch = "planoutings"
    /\ Begin(p)
    /\ IF Len(Call(g, u, input).args) < 2
       THEN Reply(p, Call(g, u, input), Message("usage_plan", <<>>), ok)
       ELSE /\ SendSystemMessage(p, Message("searching", <<>>), ok)
            /\ IF ok THEN BotGoto(p, Call(g, u, input), "so_search")
                     ELSE BotFinish(p, Call(g, u, input), "rejected")
    /\ UNCHANGED <<storeVars, arg, localVars, result, serverVars,
                   notified, sessionVars, pollMeta>>

\* searchPlaces: the places found; its own failures are caught and give []
SuggestOutingsSearch(p, places) ==
    /\ pc[p] = "so_search"
    /\ BotGoto(p, [bot[p] EXCEPT !.lookup = places], "plan_reply")
    /\ Touch(p)
    /\ UNCHANGED <<storeVars, arg, localVars, result, serverVars,
                   out, notified, sessionVars, pollMeta>>

\* /planMovies: the "Finding movie recommendations" message (outside the try)
SuggestMoviesStart(p, g, u, input, ok) ==
    /\ pc[p] = "idle"
    /\ IsCommand(input)
    /\ Call(g, u, input).branch = "planmovies"
    /\ Begin(p)
    /\ SendSystemMessage(p, Message("searching", <<>>), ok)
    /\ IF ok THEN BotGoto(p, Call(g, u, input), "sm_genres")
             ELSE BotFinish(p, Call(g, u, input), "rejected")
    /\ UNCHANGED <<storeVars, arg, localVars, result, serverVars,
                   notified, sessionVars, pollMeta>>

\* getUserGenres: the profile's genres; a failed read is caught and gives []
SuggestMoviesGenres(p, hasGenres, ok) ==
    /\ pc[p] = "sm_genres"
    /\ BotGoto(p, bot[p], IF hasGenres /\ ok THEN "sm_search" ELSE "sm_nogenres")
    /\ Touch(p)
    /\ UNCHANGED <<storeVars, arg, localVars, result, serverVars,
                   out, notified, sessionVars, pollMeta>>

\* the "No favorite genres" message, inside the try
SuggestMoviesNoGenres(p, ok) ==
    /\ pc[p] = "sm_nogenres"
    /\ SendSystemMessage(p, Message("no_genres", <<>>), ok)
    /\ IF ok THEN BotFinish(p, bot[p], "true") ELSE BotGoto(p, bot[p], "plan_failed")
    /\ Touch(p)
    /\ UNCHANGED <<storeVars, arg, localVars, result, serverVars,
                   notified, sessionVars, pollMeta>>

\* searchMoviesByGenres: data.results.slice(0, 5), or throws
SuggestMoviesSearch(p, movies, ok) ==
    /\ pc[p] = "sm_search"
    /\ IF ok THEN BotGoto(p, [bot[p] EXCEPT !.lookup = Take(movies, TopN)], "plan_reply")
             ELSE BotGoto(p, bot[p], "plan_failed")
    /\ Touch(p)
    /\ UNCHANGED <<storeVars, arg, localVars, result, serverVars,
                   out, notified, sessionVars, pollMeta>>

\* the searches storing everything the lookup returned
PlanReplyStoresLookup(p, ok) ==
    /\ pc[p] = "plan_reply"
    /\ LET top == IF bot[p].branch = "planoutings" THEN Take(bot[p].lookup, TopN)
                  ELSE bot[p].lookup
       IN /\ SendSystemMessage(p, IF top = <<>> THEN Message("none_found", <<>>)
                                  ELSE Message("list", Names(top)), ok)
          /\ searchResults' = IF ok /\ top # <<>>
                              THEN [searchResults EXCEPT ![p][bot[p].groupId] = bot[p].lookup]
                              ELSE searchResults
    /\ IF ok THEN BotFinish(p, bot[p], "true") ELSE BotGoto(p, bot[p], "plan_failed")
    /\ Touch(p)
    /\ UNCHANGED <<storeVars, arg, localVars, result, serverVars,
                   notified, selectedItems, pollMeta>>

\* both searches: "none found", or the numbered list of the top candidates and
\* then searchResults.set(groupId, top); a throw goes to the catch block
PlanReply(p, ok) ==
    /\ pc[p] = "plan_reply"
    /\ LET top == IF bot[p].branch = "planoutings" THEN Take(bot[p].lookup, TopN)
                  ELSE bot[p].lookup
       IN /\ SendSystemMessage(p, IF top = <<>> THEN Message("none_found", <<>>)
                                  ELSE Message("list", Names(top)), ok)
          /\ searchResults' = IF ok /\ top # <<>>
                              THEN [searchResults EXCEPT ![p][bot[p].groupId] = top]
                              ELSE searchResults
    /\ IF ok THEN BotFinish(p, bot[p], "true") ELSE BotGoto(p, bot[p], "plan_failed")
    /\ Touch(p)
    /\ UNCHANGED <<storeVars, arg, localVars, result, serverVars,
                   notified, selectedItems, pollMeta>>

\* catch (e): the "Failed to fetch suggestions" message
PlanFailed(p, ok) ==
    /\ pc[p] = "plan_failed"
    /\ Reply(p, bot[p], Message("failed", <<>>), ok)
    /\ Touch(p)
    /\ UNCHANGED <<storeVars, arg, localVars, result, serverVars,
                   notified, sessionVars, pollMeta>>

\* ------------------------------------------------------------ selectItem
\* find that returns the last candidate that matches
FindLast(results, itemName) ==
    LET hits == {i \in 1..Len(results) : Includes(ToLowerCase(results[i].name), itemName)} IN
    IF hits = {} THEN NoCandidate
    ELSE results[CHOOSE i \in hits : \A j \in hits : j <= i]

\* results.find(r => r.name.toLowerCase().includes(itemName)) (r.title for a
\* movie): the first candidate in list order that matches, or undefined
Find(results, itemName) ==
    LET hits == {i \in 1..Len(results) : Includes(ToLowerCase(results[i].name), itemName)} IN
    IF hits = {} THEN NoCandidate
    ELSE results[CHOOSE i \in hits : \A j \in hits : i <= j]

\* /select: one system message whatever the case, none of them inside a try;
\* on a match selectedItems.set runs before the message is sent
SelectItem(p, g, u, input, ok) ==
    /\ pc[p] = "idle"
    /\ IsCommand(input)
    /\ Call(g, u, input).branch = "select"
    /\ Begin(p)
    /\ LET b == Call(g, u, input)
           itemName == ToLowerCase(JoinWords(b.args))
           results == searchResults[p][g]
           selected == Find(results, itemName)
       IN IF b.args = <<>>
          THEN Reply(p, b, Message("usage_select", <<>>), ok) /\ UNCHANGED selectedItems
          ELSE IF results = <<>>
          THEN Reply(p, b, Message("no_results", <<>>), ok) /\ UNCHANGED selectedItems
          ELSE IF selected = NoCandidate
          THEN Reply(p, b, Message("not_found", Names(results)), ok) /\ UNCHANGED selectedItems
          ELSE /\ selectedItems' = [selectedItems EXCEPT ![p][g] = selected]
               /\ Reply(p, [b EXCEPT !.selected = selected],
                        Message("selected", <<selected.name>>), ok)
    /\ UNCHANGED <<storeVars, arg, localVars, result, serverVars,
                   notified, searchResults, pollMeta>>

\* --------------------------------------------------------- parseDateTime
\* /^\d{4}-\d{2}-\d{2}$/
IsDateToken(a) ==
    /\ Len(a) = 10
    /\ \A i \in {1, 2, 3, 4, 6, 7, 9, 10} : a[i] \in Digits
    /\ a[5] = "-"
    /\ a[8] = "-"

\* /^\d{1,2}:\d{2}$/
IsClockToken(a) ==
    \/ /\ Len(a) = 4
       /\ a[1] \in Digits /\ a[2] = ":" /\ a[3] \in Digits /\ a[4] \in Digits
    \/ /\ Len(a) = 5
       /\ a[1] \in Digits /\ a[2] \in Digits /\ a[3] = ":"
       /\ a[4] \in Digits /\ a[5] \in Digits

\* /^\d{1,2}:\d{2}([ap]m)?$/i
IsTimeToken(a) ==
    \/ IsClockToken(a)
    \/ /\ Len(a) > 2
       /\ ToLowerChar(a[Len(a) - 1]) \in {"a", "p"}
       /\ ToLowerChar(a[Len(a)]) = "m"
       /\ IsClockToken(SubSeq(a, 1, Len(a) - 2))

\* for (const a of args) { if (date pattern) date = a; if (time pattern)
\* time = a.toLowerCase(); }: every match overwrites the one before it
RECURSIVE ParseLoop(_, _)
ParseLoop(args, acc) ==
    IF args = <<>> THEN acc
    ELSE LET a == Head(args)
             d == IF IsDateToken(a) THEN a ELSE acc.date
             t == IF IsTimeToken(a) THEN ToLowerCase(a) ELSE acc.time
         IN ParseLoop(Tail(args), [date |-> d, time |-> t])

\* undefined is the empty string here: no token matches it
ParseDateTime(args) == ParseLoop(args, [date |-> <<>>, time |-> <<>>])

\* ------------------------------------------------------------ attachWhen
\* calls that have yet to insert a poll (keeps nextPollId within MaxPolls)
WhenRoom(p) ==
    nextPollId + Cardinality({q \in Procs \ {p} : pc[q] \in {"aw_deact", "aw_create"}})
        <= MaxPolls

\* /when: no selection, or no date or no time: one message and return;
\* otherwise the try block starts by listing the group's active polls
AttachWhenStart(p, g, u, input, ok) ==
    /\ pc[p] = "idle"
    /\ IsCommand(input)
    /\ Call(g, u, input).branch = "when"
    /\ Begin(p)
    /\ LET selected == selectedItems[p][g]
           when == ParseDateTime(Call(g, u, input).args)
           b == [Call(g, u, input) EXCEPT !.selected = selected,
                                          !.date = when.date, !.time = when.time]
       IN IF selected = NoCandidate
          THEN Reply(p, b, Message("no_selection", <<>>), ok) /\ UNCHANGED <<pending, listed>>
          ELSE IF when.date = <<>> \/ when.time = <<>>
          THEN Reply(p, b, Message("usage_when", <<>>), ok) /\ UNCHANGED <<pending, listed>>
          ELSE /\ WhenRoom(p)
               /\ UNCHANGED out
               /\ IF ok
                  THEN /\ listed' = [listed EXCEPT ![p] = ActivePollsOfGroup(g)]
                       /\ pending' = [pending EXCEPT ![p] = ActivePollsOfGroup(g)]
                       /\ BotGoto(p, b, IF ActivePollsOfGroup(g) = {} THEN "aw_create"
                                        ELSE "aw_deact")
                  ELSE /\ BotGoto(p, b, "aw_failed")
                       /\ UNCHANGED <<pending, listed>>
    /\ UNCHANGED <<storeVars, arg, fetched, found, result, serverVars,
                   notified, sessionVars, pollMeta>>

\* attachWhen whose loop leaves the listed polls active
AttachWhenDeactivateSkips(p, id, ok) ==
    /\ pc[p] = "aw_deact"
    /\ id \in pending[p]
    /\ ok => id \in PollIds
    /\ IF ok
       THEN /\ pending' = [pending EXCEPT ![p] = @ \ {id}]
            /\ BotGoto(p, bot[p], IF pending[p] = {id} THEN "aw_create" ELSE "aw_deact")
       ELSE /\ pending' = [pending EXCEPT ![p] = {}]
            /\ BotGoto(p, bot[p], "aw_failed")
    /\ Touch(p)
    /\ UNCHANGED <<polls, votes, nextPollId, nextVoteId, arg, fetched, listed, found, result,
                   serverVars, out, notified, sessionVars, pollMeta>>

\* for (const poll of existingPolls.documents) await updateDocument(poll,
\* {active: false}): one update at a time; a throw abandons the rest
AttachWhenDeactivate(p, id, ok) ==
    /\ pc[p] = "aw_deact"
    /\ id \in pending[p]
    /\ ok => id \in PollIds
    /\ IF ok
       THEN /\ polls' = [polls EXCEPT ![id].active = FALSE]
            /\ pending' = [pending EXCEPT ![p] = @ \ {id}]
            /\ BotGoto(p, bot[p], IF pending[p] = {id} THEN "aw_create" ELSE "aw_deact")
       ELSE /\ pending' = [pending EXCEPT ![p] = {}]
            /\ BotGoto(p, bot[p], "aw_failed")
            /\ UNCHANGED polls
    /\ Touch(p)
    /\ UNCHANGED <<votes, nextPollId, nextVoteId, arg, fetched, listed, found, result,
                   serverVars, out, notified, sessionVars, pollMeta>>

\* createDocument(POLLS, {.., active: true, metadata: {date, time, ..}})
AttachWhenCreate(p, ok) ==
    /\ pc[p] = "aw_create"
    /\ IF ok
       THEN /\ polls' = polls @@ (nextPollId :>
                [groupId |-> bot[p].groupId, creatorId |-> bot[p].userId, active |-> TRUE])
            /\ pollMeta' = pollMeta @@ (nextPollId :> [date |-> bot[p].date, time |-> bot[p].time])
            /\ nextPollId' = nextPollId + 1
            /\ BotGoto(p, [bot[p] EXCEPT !.active = nextPollId], "aw_announce")
       ELSE /\ BotGoto(p, bot[p], "aw_failed")
            /\ UNCHANGED <<polls, pollMeta, nextPollId>>
    /\ Touch(p)
    /\ UNCHANGED <<votes, nextVoteId, arg, localVars, result, serverVars,
                   out, notified, sessionVars>>

\* createDocument(MESSAGES, {.., text: "New poll created", pollId})
AttachWhenAnnounce(p, ok) ==
    /\ pc[p] = "aw_announce"
    /\ SendSystemMessage(p, Message("announce", <<bot[p].selected.name>>), ok)
    /\ BotGoto(p, bot[p], IF ok THEN "aw_message" ELSE "aw_failed")
    /\ Touch(p)
    /\ UNCHANGED <<storeVars, arg, localVars, result, serverVars,
                   notified, sessionVars, pollMeta>>

\* the "Poll Created!" system message, then selectedItems.delete(groupId) and
\* searchResults.delete(groupId)
AttachWhenMessage(p, ok) ==
    /\ pc[p] = "aw_message"
    /\ SendSystemMessage(p, Message("poll_created", <<bot[p].selected.name>>), ok)
    /\ IF ok
       THEN /\ selectedItems' = [selectedItems EXCEPT ![p][bot[p].groupId] = NoCandidate]
            /\ searchResults' = [searchResults EXCEPT ![p][bot[p].groupId] = <<>>]
            /\ BotFinish(p, bot[p], "true")
       ELSE /\ BotGoto(p, bot[p], "aw_failed")
            /\ UNCHANGED sessionVars
    /\ Touch(p)
    /\ UNCHANGED <<storeVars, arg, localVars, result, serverVars, notified, pollMeta>>

\* catch (error): the "Failed to create poll" message
AttachWhenFailed(p, ok) ==
    /\ pc[p] = "aw_failed"
    /\ Reply(p, bot[p], Message("failed_poll", <<>>), ok)
    /\ Touch(p)
    /\ UNCHANGED <<storeVars, arg, localVars, result, serverVars,
                   notified, sessionVars, pollMeta>>

\* ------------------------------------------------ rsvpSummary / lockDecision
\* const active = await getActivePoll(groupId): null when the read fails
ReadActivePoll(p, g, u, input, branch, ok, none, some) ==
    /\ pc[p] = "idle"
    /\ IsCommand(input)
    /\ Call(g, u, input).branch = branch
    /\ Begin(p)
    /\ \E v \in (IF ok THEN GetActivePollReturns(g) ELSE {NoId}) :
          BotGoto(p, [Call(g, u, input) EXCEPT !.active = v], IF v = NoId THEN none ELSE some)
    /\ UNCHANGED <<storeVars, arg, localVars, result, serverVars,
                   out, notified, sessionVars, pollMeta>>

\* the documents getPollVotes returns: [] when the read fails
PollVotesRead(id, ok) == IF ok THEN VotesOfPoll(id) ELSE {}

RsvpSummaryStart(p, g, u, input, ok) ==
    ReadActivePoll(p, g, u, input, "rsvp", ok, "rs_none", "rs_votes")

\* "No active poll to summarize."
RsvpSummaryNone(p, ok) ==
    /\ pc[p] = "rs_none"
    /\ Reply(p, bot[p], Message("no_active", <<>>), ok)
    /\ Touch(p)
    /\ UNCHANGED <<storeVars, arg, localVars, result, serverVars,
                   notified, sessionVars, pollMeta>>

\* getPollVotes and the tally of the choices
RsvpSummaryVotes(p, ok) ==
    /\ pc[p] = "rs_votes"
    /\ LET read == PollVotesRead(bot[p].active, ok) IN
       BotGoto(p, [bot[p] EXCEPT !.tally =
                      [c \in Choices |-> Cardinality({v \in read : votes[v].choice = c})]],
               "rs_message")
    /\ Touch(p)
    /\ UNCHANGED <<storeVars, arg, localVars, result, serverVars,
                   out, notified, sessionVars, pollMeta>>

\* the "RSVP Summary" message
RsvpSummaryMessage(p, ok) ==
    /\ pc[p] = "rs_message"
    /\ Reply(p, bot[p], Message("rsvp", <<>>), ok)
    /\ Touch(p)
    /\ UNCHANGED <<storeVars, arg, localVars, result, serverVars,
                   notified, sessionVars, pollMeta>>

LockDecisionStart(p, g, u, input, ok) ==
    ReadActivePoll(p, g, u, input, "lock", ok, "lk_none", "lk_votes")

\* lockDecision that forgets the group's search session when nothing is active
LockDecisionNoneForgets(p, ok) ==
    /\ pc[p] = "lk_none"
    /\ Reply(p, bot[p], Message("no_active", <<>>), ok)
    /\ Touch(p)
    /\ searchResults' = [searchResults EXCEPT ![p][bot[p].groupId] = <<>>]
    /\ UNCHANGED <<storeVars, arg, localVars, result, serverVars,
                   notified, selectedItems, pollMeta>>

\* "No active plan to lock."
LockDecisionNone(p, ok) ==
    /\ pc[p] = "lk_none"
    /\ Reply(p, bot[p], Message("no_active", <<>>), ok)
    /\ Touch(p)
    /\ UNCHANGED <<storeVars, arg, localVars, result, serverVars,
                   notified, sessionVars, pollMeta>>

\* getPollVotes; joiners = votes.filter(v => v.choice === "join")
LockDecisionVotes(p, ok) ==
    /\ pc[p] = "lk_votes"
    /\ LET joiners == {v \in PollVotesRead(bot[p].active, ok) : votes[v].choice = "join"} IN
       /\ listed' = [listed EXCEPT ![p] = joiners]
       /\ pending' = [pending EXCEPT ![p] = joiners]
       /\ BotGoto(p, [bot[p] EXCEPT !.joiners = [v \in joiners |-> votes[v].userId]],
                  "lk_update")
    /\ Touch(p)
    /\ UNCHANGED <<storeVars, arg, fetched, found, result, serverVars,
                   out, notified, sessionVars, pollMeta>>

\* updateDocument(POLLS, active.$id, {active: false}); nothing catches a throw
LockDecisionUpdate(p, ok) ==
    /\ pc[p] = "lk_update"
    /\ ok => bot[p].active \in PollIds
    /\ IF ok
       THEN /\ polls' = [polls EXCEPT ![bot[p].active].active = FALSE]
            /\ BotGoto(p, bot[p], "lk_summary")
            /\ UNCHANGED pending
       ELSE /\ BotFinish(p, bot[p], "rejected")
            /\ pending' = [pending EXCEPT ![p] = {}]
            /\ UNCHANGED polls
    /\ Touch(p)
    /\ UNCHANGED <<votes, nextPollId, nextVoteId, arg, fetched, listed, found, result,
                   serverVars, out, notified, sessionVars, pollMeta>>

\* the "Plan Locked!" summary message; nothing catches a throw
LockDecisionSummary(p, ok) ==
    /\ pc[p] = "lk_summary"
    /\ SendSystemMessage(p, Message("locked", <<>>), ok)
    /\ IF ok /\ pending[p] # {}
       THEN BotGoto(p, bot[p], "lk_notify") /\ UNCHANGED pending
       ELSE /\ BotFinish(p, bot[p], IF ok THEN "true" ELSE "rejected")
            /\ pending' = [pending EXCEPT ![p] = {}]
    /\ Touch(p)
    /\ UNCHANGED <<storeVars, arg, fetched, listed, found, result, serverVars,
                   notified, sessionVars, pollMeta>>

\* for (const joiner of joiners) await sendPersonalNotification(joiner.userId,
\* ..): createDocument in NOTIFICATIONS; a throw is caught and logged
LockDecisionNotify(p, v, ok) ==
    /\ pc[p] = "lk_notify"
    /\ v \in pending[p]
    /\ notified' = [notified EXCEPT ![p] =
                       Append(@, [userId |-> bot[p].joiners[v], created |-> ok])]
    /\ pending' = [pending EXCEPT ![p] = @ \ {v}]
    /\ IF pending[p] = {v} THEN BotFinish(p, bot[p], "true")
                           ELSE BotGoto(p, bot[p], "lk_notify")
    /\ Touch(p)
    /\ UNCHANGED <<storeVars, arg, fetched, listed, found, result, serverVars,
                   out, sessionVars, pollMeta>>

\* ---------------------------- attachWhen of the chat-aware PlanBot variant
\* (pages/notifications.tsx): the command works on the group's active poll
AttachWhenVariantStart(p, g, u, input, ok) ==
    ReadActivePoll(p, g, u, input, "when", ok, "av_none", "av_parse")

\* "No active poll. Run '/plan cafe <area>' first to create one."
AttachWhenVariantNone(p, ok) ==
    /\ pc[p] = "av_none"
    /\ Reply(p, bot[p], Message("no_active", <<>>), ok)
    /\ Touch(p)
    /\ UNCHANGED <<storeVars, arg, localVars, result, serverVars,
                   notified, sessionVars, pollMeta>>

\* parseDateTime; if (!date && !time) the usage message; otherwise
\* updateDocument(POLLS, active.$id, {metadata: {...old, date?, time?}}),
\* with no try around it
AttachWhenVariantUpdate(p, ok) ==
    /\ pc[p] = "av_parse"
    /\ LET when == ParseDateTime(bot[p].args)
           id == bot[p].active
           old == IF id \in DOMAIN pollMeta THEN pollMeta[id]
                  ELSE [date |-> <<>>, time |-> <<>>]
           nextMeta == [date |-> IF when.date # <<>> THEN when.date ELSE old.date,
                        time |-> IF when.time # <<>> THEN when.time ELSE old.time]
       IN IF when.date = <<>> /\ when.time = <<>>
          THEN /\ Reply(p, [bot[p] EXCEPT !.date = when.date, !.time = when.time],
                        Message("usage_when", <<>>), ok)
               /\ UNCHANGED pollMeta
          ELSE /\ ok => id \in PollIds
               /\ UNCHANGED out
               /\ IF ok
                  THEN /\ pollMeta' = [i \in DOMAIN pollMeta \cup {id} |->
                                          IF i = id THEN nextMeta ELSE pollMeta[i]]
                       /\ BotGoto(p, [bot[p] EXCEPT !.date = when.date, !.time = when.time],
                                  "av_message")
                  ELSE /\ BotFinish(p, [bot[p] EXCEPT !.date = when.date,
                                                      !.time = when.time], "rejected")
                       /\ UNCHANGED pollMeta
    /\ Touch(p)
    /\ UNCHANGED <<storeVars, arg, localVars, result, serverVars, notified, sessionVars>>

\* the "Updated plan time" message
AttachWhenVariantMessage(p, ok) ==
    /\ pc[p] = "av_message"
    /\ Reply(p, bot[p], Message("updated", <<>>), ok)
    /\ Touch(p)
    /\ UNCHANGED <<storeVars, arg, localVars, result, serverVars,
                   notified, sessionVars, pollMeta>>

\* The caller takes {handled} (or the rejection); the client is free for its
\* next input.
BotReturn(p) ==
    /\ pc[p] = "bot_done"
    /\ pc' = [pc EXCEPT ![p] = "idle"]
    /\ bot' = [bot EXCEPT ![p] = NoBot]
    /\ out' = [out EXCEPT ![p] = <<>>]
    /\ notified' = [notified EXCEPT ![p] = <<>>]
    /\ listed' = [listed EXCEPT ![p] = {}]
    /\ interleaved' = [interleaved EXCEPT ![p] = FALSE]
    /\ UNCHANGED <<storeVars, arg, pending, fetched, found, result, serverVars,
                   sessionVars, pollMeta>>

\* ------------------------------------------------------- specifications
ClientIdle ==
    /\ pc = [p \in Procs |-> "idle"]
    /\ arg = [p \in Procs |-> NoArg]
    /\ pending = [p \in Procs |-> {}]
    /\ fetched = [p \in Procs |-> NoDoc]
    /\ listed = [p \in Procs |-> {}]
    /\ found = [p \in Procs |-> NoId]
    /\ result = [p \in Procs |-> NoResult]
    /\ interleaved = [p \in Procs |-> FALSE]

ServerIdle ==
    /\ dbPolls = <<>>
    /\ dbVotes = <<>>
    /\ dbMessages = <<>>
    /\ sent = <<>>
    /\ req = [h \in Handlers |-> NoReq]
    /\ ChannelIdle

\* Poll lifecycle: an empty store; clients create, activate, deactivate and
\* read polls.
Next ==
    \/ \E p \in Procs, g \in Groups, u \in Users, ok \in BOOLEAN : CreatePollList(p, g, u, ok)
    \/ \E p \in Procs, id \in 1..MaxPolls, ok \in BOOLEAN : CreatePollDeactivate(p, id, ok)
    \/ \E p \in Procs, ok \in BOOLEAN : CreatePollInsert(p, ok)
    \/ \E p \in Procs, id \in 1..MaxPolls, u \in Users, ok \in BOOLEAN : DeactivatePollGet(p, id, u, ok)
    \/ \E p \in Procs, ok \in BOOLEAN : DeactivatePollUpdate(p, ok)
    \/ \E p \in Procs, id \in 1..MaxPolls, u \in Users, ok \in BOOLEAN : ActivatePollGet(p, id, u, ok)
    \/ \E p \in Procs, ok \in BOOLEAN : ActivatePollList(p, ok)
    \/ \E p \in Procs, id \in 1..MaxPolls, ok \in BOOLEAN : ActivatePollDeactivate(p, id, ok)
    \/ \E p \in Procs, ok \in BOOLEAN : ActivatePollUpdate(p, ok)
    \/ \E p \in Procs, g \in Groups, ok \in BOOLEAN : GetActivePoll(p, g, ok)
    \/ \E p \in Procs : Return(p)

Spec == Init /\ [][Next]_vars

\* Vote ledger: a group that already holds two polls (u1 created the first,
\* u2 then created the second, which deactivated the first); clients vote on
\* them and delete them.
TwoPolls ==
    (1 :> [groupId |-> "g1", creatorId |-> "u1", active |-> FALSE])
        @@ (2 :> [groupId |-> "g1", creatorId |-> "u2", active |-> TRUE])

VoteInit ==
    /\ polls = TwoPolls
    /\ votes = <<>>
    /\ nextPollId = 3
    /\ nextVoteId = 1
    /\ ClientIdle
    /\ ServerIdle
    /\ BotIdle
    /\ pollMeta = <<>>

VoteNext ==
    \/ \E p \in Procs, id \in 1..MaxPolls, u \in Users, c \in Choices, ok \in BOOLEAN :
          CastVoteLookup(p, id, u, c, ok)
    \/ \E p \in Procs, ok \in BOOLEAN : CastVoteWrite(p, ok)
    \/ \E p \in Procs, id \in 1..MaxPolls, u \in Users, ok \in BOOLEAN : DeletePollGet(p, id, u, ok)
    \/ \E p \in Procs, ok \in BOOLEAN : DeletePollListVotes(p, ok)
    \/ \E p \in Procs, v \in 1..MaxVotes, ok \in BOOLEAN : DeletePollDeleteVote(p, v, ok)
    \/ \E p \in Procs, ok \in BOOLEAN : DeletePollDelete(p, ok)
    \/ \E p \in Procs : Return(p)

VoteSpec == VoteInit /\ [][VoteNext]_vars

\* Poll management: the same two polls, each with one vote cast; clients
\* delete, activate and deactivate them, as creator or not.
ManageInit ==
    /\ polls = TwoPolls
    /\ votes = (1 :> [pollId |-> 1, userId |-> "u2", choice |-> "join"])
            @@ (2 :> [pollId |-> 2, userId |-> "u1", choice |-> "maybe"])
    /\ nextPollId = 3
    /\ nextVoteId = 3
    /\ ClientIdle
    /\ ServerIdle
    /\ BotIdle
    /\ pollMeta = <<>>

ManageNext ==
    \/ \E p \in Procs, id \in 1..MaxPolls, u \in Users, ok \in BOOLEAN : DeletePollGet(p, id, u, ok)
    \/ \E p \in Procs, ok \in BOOLEAN : DeletePollListVotes(p, ok)
    \/ \E p \in Procs, v \in 1..MaxVotes, ok \in BOOLEAN : DeletePollDeleteVote(p, v, ok)
    \/ \E p \in Procs, ok \in BOOLEAN : DeletePollDelete(p, ok)
    \/ \E p \in Procs, id \in 1..MaxPolls, u \in Users, ok \in BOOLEAN : DeactivatePollGet(p, id, u, ok)
    \/ \E p \in Procs, ok \in BOOLEAN : DeactivatePollUpdate(p, ok)
    \/ \E p \in Procs, id \in 1..MaxPolls, u \in Users, ok \in BOOLEAN : ActivatePollGet(p, id, u, ok)
    \/ \E p \in Procs, ok \in BOOLEAN : ActivatePollList(p, ok)
    \/ \E p \in Procs, id \in 1..MaxPolls, ok \in BOOLEAN : ActivatePollDeactivate(p, id, ok)
    \/ \E p \in Procs, ok \in BOOLEAN : ActivatePollUpdate(p, ok)
    \/ \E p \in Procs : Return(p)

ManageSpec == ManageInit /\ [][ManageNext]_vars

\* The Express server: concurrent poll and vote requests against its tables.
ServerNext ==
    \/ \E h \in Handlers, g \in Groups, u \in Users, body \in PollBodies, ok \in BOOLEAN :
          PostPollInsert(h, g, u, body, ok)
    \/ \E h \in Handlers, ok \in BOOLEAN : PostPollMessage(h, ok)
    \/ \E h \in Handlers : PostPollBroadcast(h)
    \/ \E h \in Handlers, id \in 1..MaxDbPolls, u \in Users, body \in VoteBodies, ok \in BOOLEAN :
          PostVoteSelect(h, id, u, body, ok)
    \/ \E h \in Handlers, ok \in BOOLEAN : PostVoteWrite(h, ok)
    \/ \E h \in Handlers : ServerReturn(h)

ServerSpec == Init /\ [][ServerNext]_vars

\* The realtime channel: sockets connect, authenticate, join groups and close
\* while a handler posts messages.
ChannelNext ==
    \/ \E w \in Sockets, cookie \in BOOLEAN : WsConnect(w, cookie)
    \/ \E w \in Sockets, u \in Users : WsAuth(w, u)
    \/ \E w \in Sockets, g \in Groups : WsJoin(w, g)
    \/ \E w \in Sockets, g \in Groups, ok \in BOOLEAN : WsJoinResolve(w, g, ok)
    \/ \E w \in Sockets : WsClose(w)
    \/ \E h \in {"h1"}, g \in Groups, u \in Users, body \in MessageBodies, ok \in BOOLEAN :
          PostMessageInsert(h, g, u, body, ok)
    \/ \E h \in {"h1"} : PostMessageBroadcast(h)
    \/ \E h \in {"h1"} : ServerReturn(h)

ChannelSpec == Init /\ [][ChannelNext]_vars

\* Fan-out: both sockets are open and joined to g1 while two handlers serve
\* well-formed message, poll, vote and reaction requests of user u1.
FanoutInit ==
    /\ polls = <<>>
    /\ votes = <<>>
    /\ nextPollId = 1
    /\ nextVoteId = 1
    /\ ClientIdle
    /\ dbPolls = <<>>
    /\ dbVotes = <<>>
    /\ dbMessages = <<>>
    /\ sent = <<>>
    /\ req = [h \in Handlers |-> NoReq]
    /\ BotIdle
    /\ pollMeta = <<>>
    /\ dbReactions = {}
    /\ clients = [g \in Groups |-> IF g = "g1" THEN Sockets ELSE {}]
    /\ ws = [w \in Sockets |-> [readyState |-> "OPEN",
                                userId |-> IF w = "w1" THEN "u1" ELSE "u2",
                                currentGroupId |-> "g1"]]
    /\ joins = {}
    /\ joined = [w \in Sockets |-> "g1"]
    /\ received = [w \in Sockets |-> <<>>]
    /\ ChatIdle

FanoutNext ==
    \/ \E h \in Handlers, g \in Groups, u \in {"u1"}, body \in {[text |-> "hi"]}, ok \in BOOLEAN :
          PostMessageInsert(h, g, u, body, ok)
    \/ \E h \in Handlers : PostMessageBroadcast(h)
    \/ \E h \in Handlers, g \in Groups, u \in {"u1"}, body \in {[NoBody EXCEPT !.type = "movie", !.title = "t"]}, ok \in BOOLEAN :
          PostPollInsert(h, g, u, body, ok)
    \/ \E h \in Handlers, ok \in BOOLEAN : PostPollMessage(h, ok)
    \/ \E h \in Handlers : PostPollBroadcast(h)
    \/ \E h \in Handlers, id \in 1..MaxDbPolls, u \in {"u1"}, body \in {[NoBody EXCEPT !.choice = "join"], [NoBody EXCEPT !.choice = "no"]}, ok \in BOOLEAN :
          PostVoteSelect(h, id, u, body, ok)
    \/ \E h \in Handlers, ok \in BOOLEAN : PostVoteWrite(h, ok)
    \/ \E h \in Handlers, m \in 1..MaxDbMessages, u \in {"u1"}, ok \in BOOLEAN :
          PostReactionSelect(h, m, u, ok)
    \/ \E h \in Handlers, ok \in BOOLEAN : PostReactionWrite(h, ok)
    \/ \E h \in Handlers, ok \in BOOLEAN : PostReactionList(h, ok)
    \/ \E h \in Handlers : ServerReturn(h)

FanoutSpec == FanoutInit /\ [][FanoutNext]_vars

\* The chat page of one group: the initial fetch and the subscription run
\* while members create messages.
ChatNext ==
    \/ ChatSubscribe
    \/ ChatCreate
    \/ FetchMessagesList
    \/ \E ok \in BOOLEAN : FetchMessagesSet(ok)
    \/ OnMessageCreate

ChatSpec == Init /\ [][ChatNext]_vars

\* --------------------------------------------------- PlanBot: chat inputs
Slash == <<"/">>
Bang == <<"!">>
Line(words) == JoinWords(words)

WordHello == <<"h", "e", "l", "l", "o">>
WordBogus == <<"b", "o", "g", "u", "s">>
WordArea == <<"a">>
WordCity == <<"b">>

\* what a member types that is no command, with and without a command word
ChatInputs == {WordHello, Line(<<WordHello, CmdHelp>>), <<Space>> \o CmdLock, <<>>}

\* the help command in several spellings, and words the switch does not know
HelpInputs ==
    {Slash \o CmdHelp, Bang \o CmdHelp, <<Space>> \o Slash \o CmdHelp \o <<Space>>,
     Slash \o <<"H", "E", "L", "P">>, Slash \o <<"H", "e", "l", "p">>,
     Bang \o <<"H", "E", "L", "P">>, Line(<<Slash \o CmdHelp, WordHello>>)}

UnknownInputs == {Slash \o WordBogus, Bang \o WordBogus, Slash, Bang,
                  Slash \o CmdHelp \o WordBogus}

\* every command of the switch under either prefix, with arguments that end
\* it in one step
BothPrefixInputs ==
    {pre \o Line(<<c>>) : pre \in {Slash, Bang},
                          c \in {CmdPlanOutings, CmdSelect, CmdWhen}}

CommandInputs == ChatInputs \cup HelpInputs \cup UnknownInputs \cup BothPrefixInputs

\* Command dispatch: what a member types is handed to handlePlanbotCommand.
CommandNext ==
    \/ \E p \in Procs, g \in Groups, u \in Users, input \in CommandInputs :
          HandleNotCommand(p, g, u, input)
    \/ \E p \in Procs, g \in Groups, u \in Users, input \in CommandInputs, ok \in BOOLEAN :
          Help(p, g, u, input, ok)
    \/ \E p \in Procs, g \in Groups, u \in Users, input \in CommandInputs, ok \in BOOLEAN :
          UnknownCommand(p, g, u, input, ok)
    \/ \E p \in Procs, g \in Groups, u \in Users, input \in CommandInputs, ok \in BOOLEAN :
          SuggestOutingsStart(p, g, u, input, ok)
    \/ \E p \in Procs, g \in Groups, u \in Users, input \in CommandInputs, ok \in BOOLEAN :
          SelectItem(p, g, u, input, ok)
    \/ \E p \in Procs, g \in Groups, u \in Users, input \in CommandInputs, ok \in BOOLEAN :
          AttachWhenStart(p, g, u, input, ok)
    \/ \E p \in Procs : BotReturn(p)

CommandSpec == Init /\ [][CommandNext]_vars

\* ------------------------------------------- PlanBot: search and schedule
\* what the lookup capability can return
CafeName(i) == <<"C", "a", "f", "e", Space, UpperAlphabet[i]>>
Place(i) == [kind |-> "place", name |-> CafeName(i)]
Movie(name) == [kind |-> "movie", name |-> name]
TitleDune == <<"D", "u", "n", "e">>
TitleUp == <<"U", "p">>

PlaceLookups == {<<>>, <<Place(1), Place(2)>>,
                 <<Place(2), Place(1), Place(3), Place(4), Place(5), Place(6)>>}
MovieLookups == {<<>>, <<Movie(TitleDune), Movie(TitleUp)>>}

Date1 == <<"2", "0", "2", "5", "-", "1", "0", "-", "3", "0">>
Date2 == <<"2", "0", "2", "5", "-", "1", "1", "-", "0", "1">>
Time1 == <<"1", "9", ":", "3", "0">>
Time2 == <<"7", ":", "0", "5", "P", "M">>
WordSevenPm == <<"7", "p", "m">>

PlanInputs ==
    {Slash \o Line(<<CmdPlanOutings, WordArea, WordCity>>),
     Slash \o Line(<<CmdPlanOutings, WordArea>>),
     Slash \o CmdPlanMovies}

SelectInputs ==
    {Slash \o Line(<<CmdSelect, <<"c", "a", "f", "e">>, <<"B">>>>),
     Slash \o Line(<<CmdSelect, <<"C", "A", "F", "E">>>>),
     Slash \o Line(<<CmdSelect, <<"u">>>>),
     Slash \o Line(<<CmdSelect, WordBogus>>),
     Slash \o CmdSelect}

WhenInputs ==
    {Slash \o Line(<<CmdWhen, Date1, Time1>>),
     Slash \o Line(<<CmdWhen, Time2, Date2>>),
     Slash \o Line(<<CmdWhen, Date1, Date2, Time1, Time2>>),
     Slash \o Line(<<CmdWhen, Date1>>),
     Slash \o Line(<<CmdWhen, Date1, WordSevenPm>>),
     Slash \o Line(<<CmdWhen, Time1>>)}

SearchInputs ==
    {WordHello, Line(<<CmdSelect, WordBogus>>), Bang \o Line(<<CmdSelect, WordBogus>>)}
       \cup PlanInputs \cup SelectInputs

\* Search and select: searchResults and selectedItems belong to one client, so
\* one member's client runs its searches and selections in either group.
SearchNext ==
    \/ \E g \in Groups, u \in Users, input \in SearchInputs :
          HandleNotCommand("c1", g, u, input)
    \/ \E g \in Groups, u \in Users, input \in SearchInputs, ok \in BOOLEAN :
          UnknownCommand("c1", g, u, input, ok)
    \/ \E g \in Groups, u \in Users, input \in SearchInputs, ok \in BOOLEAN :
          SuggestOutingsStart("c1", g, u, input, ok)
    \/ \E places \in PlaceLookups : SuggestOutingsSearch("c1", places)
    \/ \E g \in Groups, u \in Users, input \in SearchInputs, ok \in BOOLEAN :
          SuggestMoviesStart("c1", g, u, input, ok)
    \/ \E hasGenres \in BOOLEAN, ok \in BOOLEAN : SuggestMoviesGenres("c1", hasGenres, ok)
    \/ \E ok \in BOOLEAN : SuggestMoviesNoGenres("c1", ok)
    \/ \E movies \in MovieLookups, ok \in BOOLEAN : SuggestMoviesSearch("c1", movies, ok)
    \/ \E ok \in BOOLEAN : PlanReply("c1", ok)
    \/ \E ok \in BOOLEAN : PlanFailed("c1", ok)
    \/ \E g \in Groups, u \in Users, input \in SearchInputs, ok \in BOOLEAN :
          SelectItem("c1", g, u, input, ok)
    \/ BotReturn("c1")

SearchSpec == Init /\ [][SearchNext]_vars

\* Schedule: both clients have searched and selected in group g1 (c1 a place,
\* c2 a movie); c1 also holds results without a selection in g2.
WhenSession ==
    /\ searchResults = [p \in Procs |-> [g \in Groups |->
          IF p = "c1" THEN <<Place(1), Place(2)>>
          ELSE IF g = "g1" THEN <<Movie(TitleDune), Movie(TitleUp)>> ELSE <<>>]]
    /\ selectedItems = [p \in Procs |-> [g \in Groups |->
          IF g # "g1" THEN NoCandidate
          ELSE IF p = "c1" THEN Place(2) ELSE Movie(TitleDune)]]

WhenInit ==
    /\ polls = <<>>
    /\ votes = <<>>
    /\ nextPollId = 1
    /\ nextVoteId = 1
    /\ ClientIdle
    /\ ServerIdle
    /\ bot = [p \in Procs |-> NoBot]
    /\ out = [p \in Procs |-> <<>>]
    /\ notified = [p \in Procs |-> <<>>]
    /\ WhenSession
    /\ pollMeta = <<>>

\* ctx.currentUser: the member signed in at the client
CurrentUser(p) == IF p = "c1" THEN "u1" ELSE "u2"

WhenNext ==
    \/ \E p \in Procs, g \in Groups, input \in WhenInputs, ok \in BOOLEAN :
          AttachWhenStart(p, g, CurrentUser(p), input, ok)
    \/ \E p \in Procs, id \in 1..MaxPolls, ok \in BOOLEAN : AttachWhenDeactivate(p, id, ok)
    \/ \E p \in Procs, ok \in BOOLEAN : AttachWhenCreate(p, ok)
    \/ \E p \in Procs, ok \in BOOLEAN : AttachWhenAnnounce(p, ok)
    \/ \E p \in Procs, ok \in BOOLEAN : AttachWhenMessage(p, ok)
    \/ \E p \in Procs, ok \in BOOLEAN : AttachWhenFailed(p, ok)
    \/ \E p \in Procs : BotReturn(p)

WhenSpec == WhenInit /\ [][WhenNext]_vars

\* The variant's /when: group g1 has an active poll that already carries a
\* date and a time, group g2 has no poll.
WhenVariantInit ==
    /\ polls = (1 :> [groupId |-> "g1", creatorId |-> "u1", active |-> TRUE])
    /\ votes = <<>>
    /\ nextPollId = 2
    /\ nextVoteId = 1
    /\ ClientIdle
    /\ ServerIdle
    /\ BotIdle
    /\ pollMeta = (1 :> [date |-> Date2, time |-> ToLowerCase(Time2)])

WhenVariantNext ==
    \/ \E p \in Procs, g \in Groups, input \in WhenInputs, ok \in BOOLEAN :
          AttachWhenVariantStart(p, g, CurrentUser(p), input, ok)
    \/ \E p \in Procs, ok \in BOOLEAN : AttachWhenVariantNone(p, ok)
    \/ \E p \in Procs, ok \in BOOLEAN : AttachWhenVariantUpdate(p, ok)
    \/ \E p \in Procs, ok \in BOOLEAN : AttachWhenVariantMessage(p, ok)
    \/ \E p \in Procs : BotReturn(p)

WhenVariantSpec == WhenVariantInit /\ [][WhenVariantNext]_vars

\* ------------------------------------------------- PlanBot: lock
LockInputs == {Slash \o CmdLock}

\* Members vote on the polls of group g1 from their clients and type /lock.
LockNext ==
    \/ \E p \in Procs, id \in 1..MaxPolls, u \in Users, c \in Choices, ok \in BOOLEAN :
          CastVoteLookup(p, id, u, c, ok)
    \/ \E p \in Procs, ok \in BOOLEAN : CastVoteWrite(p, ok)
    \/ \E p \in Procs : Return(p)
    \/ \E p \in Procs, g \in Groups, input \in LockInputs, ok \in BOOLEAN :
          LockDecisionStart(p, g, CurrentUser(p), input, ok)
    \/ \E p \in Procs, ok \in BOOLEAN : LockDecisionNone(p, ok)
    \/ \E p \in Procs, ok \in BOOLEAN : LockDecisionVotes(p, ok)
    \/ \E p \in Procs, ok \in BOOLEAN : LockDecisionUpdate(p, ok)
    \/ \E p \in Procs, ok \in BOOLEAN : LockDecisionSummary(p, ok)
    \/ \E p \in Procs, v \in 1..MaxVotes, ok \in BOOLEAN : LockDecisionNotify(p, v, ok)
    \/ \E p \in Procs : BotReturn(p)

LockSpec == VoteInit /\ [][LockNext]_vars

\* ------------------------------------------------- PlanBot: all commands
RsvpInputs == {Slash \o CmdRsvp}

SessionInputs ==
    {Slash \o Line(<<CmdPlanOutings, WordArea, WordCity>>),
     Slash \o Line(<<CmdSelect, <<"c", "a", "f", "e">>, <<"B">>>>),
     Slash \o Line(<<CmdWhen, Date1, Time1>>)} \cup RsvpInputs \cup LockInputs

\* Group g1 has one poll, active, with a join vote; c1 has searched and
\* selected in g1; nothing is stored for g2 or at c2.
SessionInit ==
    /\ polls = (1 :> [groupId |-> "g1", creatorId |-> "u1", active |-> TRUE])
    /\ votes = (1 :> [pollId |-> 1, userId |-> "u1", choice |-> "join"])
    /\ nextPollId = 2
    /\ nextVoteId = 2
    /\ ClientIdle
    /\ ServerIdle
    /\ bot = [p \in Procs |-> NoBot]
    /\ out = [p \in Procs |-> <<>>]
    /\ notified = [p \in Procs |-> <<>>]
    /\ searchResults = [p \in Procs |-> [g \in Groups |->
          IF p = "c1" /\ g = "g1" THEN <<Place(1), Place(2)>> ELSE <<>>]]
    /\ selectedItems = [p \in Procs |-> [g \in Groups |->
          IF p = "c1" /\ g = "g1" THEN Place(2) ELSE NoCandidate]]
    /\ pollMeta = <<>>

\* One member's client runs the whole command set in either group.
SessionNext ==
    \/ \E g \in Groups, input \in SessionInputs, ok \in BOOLEAN :
          SuggestOutingsStart("c1", g, CurrentUser("c1"), input, ok)
    \/ \E places \in PlaceLookups : SuggestOutingsSearch("c1", places)
    \/ \E ok \in BOOLEAN : PlanReply("c1", ok)
    \/ \E ok \in BOOLEAN : PlanFailed("c1", ok)
    \/ \E g \in Groups, input \in SessionInputs, ok \in BOOLEAN :
          SelectItem("c1", g, CurrentUser("c1"), input, ok)
    \/ \E g \in Groups, input \in SessionInputs, ok \in BOOLEAN :
          AttachWhenStart("c1", g, CurrentUser("c1"), input, ok)
    \/ \E id \in 1..MaxPolls, ok \in BOOLEAN : AttachWhenDeactivate("c1", id, ok)
    \/ \E ok \in BOOLEAN : AttachWhenCreate("c1", ok)
    \/ \E ok \in BOOLEAN : AttachWhenAnnounce("c1", ok)
    \/ \E ok \in BOOLEAN : AttachWhenMessage("c1", ok)
    \/ \E ok \in BOOLEAN : AttachWhenFailed("c1", ok)
    \/ \E g \in Groups, input \in SessionInputs, ok \in BOOLEAN :
          RsvpSummaryStart("c1", g, CurrentUser("c1"), input, ok)
    \/ \E ok \in BOOLEAN : RsvpSummaryNone("c1", ok)
    \/ \E ok \in BOOLEAN : RsvpSummaryVotes("c1", ok)
    \/ \E ok \in BOOLEAN : RsvpSummaryMessage("c1", ok)
    \/ \E g \in Groups, input \in SessionInputs, ok \in BOOLEAN :
          LockDecisionStart("c1", g, CurrentUser("c1"), input, ok)
    \/ \E ok \in BOOLEAN : LockDecisionNone("c1", ok)
    \/ \E ok \in BOOLEAN : LockDecisionVotes("c1", ok)
    \/ \E ok \in BOOLEAN : LockDecisionUpdate("c1", ok)
    \/ \E ok \in BOOLEAN : LockDecisionSummary("c1", ok)
    \/ \E v \in 1..MaxVotes, ok \in BOOLEAN : LockDecisionNotify("c1", v, ok)
    \/ \E id \in 1..MaxPolls, u \in Users, c \in Choices, ok \in BOOLEAN :
          CastVoteLookup("c1", id, u, c, ok)
    \/ \E ok \in BOOLEAN : CastVoteWrite("c1", ok)
    \/ Return("c1")
    \/ BotReturn("c1")

SessionSpec == SessionInit /\ [][SessionNext]_vars

\* ----------------------------------------------------------------- claims
\* a call of `op` by p has returned successfully (or thrown) and no other
\* client has stepped since it began
Completed(p, op, status) ==
    /\ pc[p] = "done"
    /\ arg[p].op = op
    /\ result[p].status = status
    /\ ~interleaved[p]

\* C1: in every reachable state, interleavings of concurrent poll operations
\* included, each group has at most one poll with active = true.
C1_SingleActivePollPerGroup ==
    \A g \in Groups : Cardinality(ActivePollsOfGroup(g)) <= 1

\* C2: in every reachable state, interleaved double submissions included,
\* there is at most one Vote record per (pollId, userId) pair.
C2_OneVotePerPollUser ==
    \A id \in 1..MaxPolls, u \in Users : Cardinality(VotesOfPollUser(id, u)) <= 1

C4_CastVoteLeavesOneRecord ==
    \A p \in Procs : Completed(p, "castVote", "ok") =>
        \E v \in VoteIds :
            /\ VotesOfPollUser(arg[p].pollId, arg[p].userId) = {v}
            /\ votes[v].choice = arg[p].choice

\* C5: when a group has two or more active polls, getActivePoll returns the
\* most recently created of them and, once the read has completed, every
\* other poll of the group is inactive.
C5_ReadReturnsNewestAndHeals ==
    \A p \in Procs : Completed(p, "getActivePoll", "ok") =>
        LET active == ActivePollsOfGroup(arg[p].groupId) IN
        /\ Cardinality(active) <= 1
        /\ result[p].value # NoId => \A i \in active : i <= result[p].value

ManageOps == {"deletePoll", "deactivatePoll", "activatePoll"}

\* C6: activatePoll, deactivatePoll and deletePoll called by a requester other
\* than the poll's creator fail with an error in their first step and leave
\* every poll and every vote as it was; nothing of the call remains in flight.
C6_NonCreatorRejected ==
    [][\A p \in Procs :
         (/\ pc[p] = "idle"
          /\ arg'[p].op \in ManageOps
          /\ arg'[p].pollId \in PollIds
          /\ polls[arg'[p].pollId].creatorId # arg'[p].userId)
         => (/\ pc'[p] = "done"
             /\ result'[p].status = "error"
             /\ pending'[p] = {}
             /\ polls' = polls
             /\ votes' = votes)]_vars

\* a non-creator's deletePoll of an existing poll that has votes was rejected
C6_Witness ==
    \E p \in Procs :
        /\ Completed(p, "deletePoll", "error")
        /\ fetched[p] # NoDoc
        /\ fetched[p].creatorId # arg[p].userId
        /\ arg[p].pollId \in PollIds
        /\ VotesOfPoll(arg[p].pollId) # {}

\* C7: after activatePoll(P, creator) has completed with nothing interleaved,
\* P is active and every other poll of P's group is inactive, also when P was
\* already active before the call.
C7_ActivatePollSoleActive ==
    \A p \in Procs : Completed(p, "activatePoll", "ok") =>
        ActivePollsOfGroup(fetched[p].groupId) = {arg[p].pollId}

\* an activatePoll of a poll that was already active, next to an active sibling
C7_Witness ==
    \E p \in Procs :
        /\ Completed(p, "activatePoll", "ok")
        /\ fetched[p].active
        /\ listed[p] \ {arg[p].pollId} # {}

C9_FailedCreateKeepsActive ==
    \A p \in Procs : Completed(p, "createPoll", "error") =>
        \A i \in listed[p] : i \in PollIds /\ polls[i].active

\* C10: invalid input persists nothing: every stored poll has a type in
\* {movie, place} and a non-empty title, every stored vote a choice in
\* {join, maybe, no}.
C10_StoredInputIsValid ==
    /\ \A i \in DOMAIN dbPolls : dbPolls[i].type \in PollTypes /\ dbPolls[i].title # ""
    /\ \A v \in DOMAIN dbVotes : dbVotes[v].choice \in Choices

\* ------------------------------------------------- claims: PlanBot commands
\* C11: a call of handlePlanbotCommand returns handled=false exactly when the
\* trimmed input starts with neither "/" nor "!"; such a call ends in its one
\* step, sends no message and no notification, writes nothing to the store and
\* leaves the session as it was; a prefixed input that returns, returns
\* handled=true.
C11_UnprefixedInputUnhandled ==
    [][\A p \in Procs :
          (pc[p] # "bot_done" /\ pc'[p] = "bot_done") =>
             LET t == Trim(bot'[p].input)
                 prefixed == t # <<>> /\ Head(t) \in {"/", "!"}
             IN /\ bot'[p].handled = "false" <=> ~prefixed
                /\ prefixed => bot'[p].handled \in {"true", "rejected"}
                /\ ~prefixed => /\ pc[p] = "idle"
                                /\ out' = out /\ notified' = notified
                                /\ UNCHANGED <<storeVars, sessionVars, pollMeta>>]_vars

C11_Witness ==
    /\ pc["c1"] = "bot_done"
    /\ bot["c1"].handled = "false"
    /\ bot["c1"].input = Line(<<CmdSelect, WordBogus>>)
    /\ searchResults["c1"][bot["c1"].groupId] # <<>>
    /\ selectedItems["c1"][bot["c1"].groupId] # NoCandidate

\* C12: the command token is matched case-insensitively under both prefixes:
\* a call whose trimmed input starts with "/" or "!" is dispatched to the case
\* of the switch named by the lower-cased first word after that one prefix
\* character, so "!" followed by a command behaves as "/" followed by it.
C12_BothPrefixesDispatchAlike ==
    \A p \in Procs :
       (bot[p].groupId # None /\ IsCommand(bot[p].input)) =>
          LET words == SplitWords(Tail(Trim(bot[p].input)))
              token == IF words = <<>> THEN <<>> ELSE ToLowerCase(Head(words))
          IN bot[p].branch = Branch(token)

\* C13: when the lookup of a /planOutings or /planMovies search returns k >= 1
\* candidates and the search ends without a failed write, the results stored
\* for the group are exactly the first min(k, TopN) candidates in lookup
\* order, and the last message of the call is the list message naming exactly
\* those candidates in that order.
C13_SearchStoresTopCandidates ==
    \A p \in Procs :
       (/\ pc[p] = "bot_done"
        /\ bot[p].branch \in {"planoutings", "planmovies"}
        /\ bot[p].lookup # <<>>
        /\ bot[p].handled = "true"
        /\ \A i \in DOMAIN out[p] : out[p][i].kind # "failed")
       => LET k == Len(bot[p].lookup)
              first == [i \in 1..(IF k < TopN THEN k ELSE TopN) |-> bot[p].lookup[i]]
          IN /\ searchResults[p][bot[p].groupId] = first
             /\ out[p] # <<>>
             /\ out[p][Len(out[p])].kind = "list"
             /\ out[p][Len(out[p])].items = [i \in DOMAIN first |-> first[i].name]

C13_Witness ==
    /\ pc["c1"] = "bot_done"
    /\ bot["c1"].branch = "planoutings"
    /\ bot["c1"].handled = "true"
    /\ Len(bot["c1"].lookup) > TopN
    /\ Len(searchResults["c1"][bot["c1"].groupId]) = TopN
    /\ out["c1"][Len(out["c1"])].kind = "list"

\* C14: /select <fragment> on a group with stored results stores as the
\* group's selection the first stored candidate, in list order, whose name or
\* title contains the fragment when both are lower-cased; when no stored
\* candidate matches, the selection is left as it was and the message of the
\* call lists the names of the stored candidates.
C14_SelectFirstMatch ==
    [][\A p \in Procs :
          (pc[p] = "idle" /\ pc'[p] = "bot_done" /\ bot'[p].branch = "select"
              /\ bot'[p].args # <<>>) =>
             LET g == bot'[p].groupId
                 results == searchResults[p][g]
                 fragment == ToLowerCase(JoinWords(bot'[p].args))
                 hits == {i \in DOMAIN results :
                             Includes(ToLowerCase(results[i].name), fragment)}
             IN /\ searchResults' = searchResults
                /\ \A h \in Groups \ {g} : selectedItems'[p][h] = selectedItems[p][h]
                /\ IF hits # {}
                   THEN \E i \in hits : /\ \A j \in hits : i <= j
                                        /\ selectedItems'[p][g] = results[i]
                   ELSE /\ selectedItems'[p][g] = selectedItems[p][g]
                        /\ (bot'[p].handled = "true" /\ results # <<>>) =>
                              out'[p] = <<Message("not_found",
                                            [i \in DOMAIN results |-> results[i].name])>>]_vars

C14_Witness ==
    /\ pc["c1"] = "bot_done"
    /\ bot["c1"].branch = "select"
    /\ bot["c1"].args = << <<"C", "A", "F", "E">> >>
    /\ Len(searchResults["c1"][bot["c1"].groupId]) = TopN
    /\ selectedItems["c1"][bot["c1"].groupId] = Place(2)

\* C15: a /when call with a date token and a time token, made while the group
\* has a selection, that completes with no write failing and no other client
\* step since it began, ends with: a new poll that is the only active poll of
\* the group and whose metadata date and time are the parsed tokens; every
\* poll the call found active inactive; the announcement message and the
\* system message sent; the group's selection and search results cleared.
C15_WhenCreatesSoleActivePoll ==
    \A p \in Procs :
       (/\ pc[p] = "bot_done"
        /\ bot[p].branch = "when"
        /\ bot[p].selected # NoCandidate
        /\ bot[p].date # <<>> /\ bot[p].time # <<>>
        /\ bot[p].handled = "true"
        /\ \A i \in DOMAIN out[p] : out[p][i].kind # "failed_poll"
        /\ ~interleaved[p])
       => LET g == bot[p].groupId
              id == bot[p].active
          IN /\ id \in PollIds
             /\ id \notin listed[p]
             /\ ActivePollsOfGroup(g) = {id}
             /\ polls[id].creatorId = bot[p].userId
             /\ pollMeta[id].date = bot[p].date
             /\ pollMeta[id].time = bot[p].time
             /\ \E a \in DOMAIN bot[p].args : bot[p].args[a] = pollMeta[id].date
             /\ \E a \in DOMAIN bot[p].args : ToLowerCase(bot[p].args[a]) = pollMeta[id].time
             /\ \A j \in listed[p] \cap PollIds : ~polls[j].active
             /\ out[p] = <<Message("announce", <<bot[p].selected.name>>),
                           Message("poll_created", <<bot[p].selected.name>>)>>
             /\ selectedItems[p][g] = NoCandidate
             /\ searchResults[p][g] = <<>>

C15_Witness ==
    /\ pc["c2"] = "bot_done"
    /\ bot["c2"].branch = "when"
    /\ bot["c2"].handled = "true"
    /\ ~interleaved["c2"]
    /\ listed["c2"] = {1}
    /\ bot["c2"].active = 2
    /\ ActivePollsOfGroup("g1") = {2}
    /\ pollMeta[2].time = ToLowerCase(Time2)
    /\ selectedItems["c2"]["g1"] = NoCandidate

\* C16: no step of a /when call whose arguments lack a date token or lack a
\* time token creates a poll, changes a poll (its active flag or its
\* metadata), or changes the session; and when such a call returns after
\* finding something to schedule (a selection, or an active poll for the
\* variant that works on the active poll), its message is the usage error.
C16_WhenWithoutDateOrTimeChangesNothing ==
    [][\A p \in Procs :
          (/\ pc'[p] # pc[p]
           /\ pc'[p] # "idle"
           /\ bot'[p].branch = "when"
           /\ LET when == ParseDateTime(bot'[p].args)
              IN when.date = <<>> \/ when.time = <<>>)
          => /\ UNCHANGED <<polls, nextPollId, pollMeta, sessionVars>>
             /\ (/\ pc'[p] = "bot_done"
                 /\ bot'[p].handled = "true"
                 /\ bot'[p].selected # NoCandidate \/ bot'[p].active # NoId)
                => out'[p] = <<Message("usage_when", <<>>)>>]_vars

\* C17: the /when parser takes the date and the time from the arguments in
\* any order, and when several arguments match the same pattern it uses the
\* first of them: the parsed date is the first argument that is a date token
\* and the parsed time is the first argument that is a time token.
C17_FirstMatchWins ==
    \A p \in Procs :
       (pc[p] # "idle" /\ bot[p].branch = "when" /\ bot[p].selected # NoCandidate) =>
          LET args == bot[p].args
              dates == {i \in DOMAIN args : IsDateToken(args[i])}
              times == {i \in DOMAIN args : IsTimeToken(args[i])}
          IN /\ dates # {} => \E i \in dates : /\ \A j \in dates : i <= j
                                               /\ bot[p].date = args[i]
             /\ times # {} => \E i \in times : /\ \A j \in times : i <= j
                                               /\ bot[p].time = ToLowerCase(args[i])

\* C18: when a /lock call that found the active poll P and read its votes has
\* returned, with no other client step since it began, P is inactive and the
\* notifications of that call are exactly one for each user who voted join on
\* P and none for any other user.
C18_LockNotifiesEachJoinerOnce ==
    \A p \in Procs :
       (/\ pc[p] = "bot_done"
        /\ bot[p].branch = "lock"
        /\ bot[p].active # NoId
        /\ bot[p].handled = "true"
        /\ ~interleaved[p]
        /\ listed[p] = {v \in VotesOfPoll(bot[p].active) : votes[v].choice = "join"})
       => /\ ~polls[bot[p].active].active
          /\ \A u \in Users :
                Cardinality({i \in DOMAIN notified[p] : notified[p][i].userId = u})
                   = IF \E v \in VotesOfPoll(bot[p].active) :
                           votes[v].userId = u /\ votes[v].choice = "join"
                     THEN 1 ELSE 0

\* C19: a /lock call that reached its notification loop returns normally
\* whatever notification fails, leaves the poll deactivated, attempts a
\* notification for every join voter it read, and attempts no more than one
\* notification for any user.
C19_NotifyFailureIsolated ==
    \A p \in Procs :
       (pc[p] = "bot_done" /\ bot[p].branch = "lock" /\ notified[p] # <<>>) =>
          /\ bot[p].handled = "true"
          /\ ~interleaved[p] => ~polls[bot[p].active].active
          /\ \A v \in listed[p] :
                \E i \in DOMAIN notified[p] : notified[p][i].userId = bot[p].joiners[v]
          /\ \A i, j \in DOMAIN notified[p] :
                notified[p][i].userId = notified[p][j].userId => i = j

\* C20: no handlePlanbotCommand call rejects: whatever persistence or lookup
\* call fails while a command is processed, the call completes with a result.
C20_NoErrorCrossesBoundary ==
    \A p \in Procs : pc[p] = "bot_done" => bot[p].handled \in {"true", "false"}

\* ------------------------------------------------- claims: PlanBot session
\* C21: a command whose precondition is missing (/select with arguments but
\* no stored results, /when with no selection, /rsvp or /lock that finds no
\* active poll) changes no poll, vote, poll metadata, notification or session
\* state in any of its steps, and when it returns it returns handled=true
\* after sending exactly one system message, the one naming the missing
\* precondition.
C21_MissingPreconditionIsSoft ==
    [][\A p \in Procs :
          LET g == bot'[p].groupId
              noResults == /\ pc[p] = "idle" /\ bot'[p].branch = "select"
                           /\ bot'[p].args # <<>> /\ searchResults[p][g] = <<>>
              noSelection == /\ pc[p] = "idle" /\ bot'[p].branch = "when"
                             /\ selectedItems[p][g] = NoCandidate
              noActive == /\ bot'[p].branch \in {"rsvp", "lock"}
                          /\ pc'[p] # pc[p]
                          /\ bot'[p].active = NoId
              expected == IF bot'[p].branch = "select" THEN "no_results"
                          ELSE IF bot'[p].branch = "when" THEN "no_selection"
                          ELSE "no_active"
          IN (pc'[p] # "idle" /\ (noResults \/ noSelection \/ noActive)) =>
                /\ UNCHANGED <<storeVars, pollMeta, notified, sessionVars>>
                /\ pc'[p] = "bot_done" =>
                      /\ bot'[p].handled \in {"true", "rejected"}
                      /\ bot'[p].handled = "true" =>
                            out'[p] = <<Message(expected, <<>>)>>]_vars

C21_Witness ==
    /\ pc["c1"] = "bot_done"
    /\ bot["c1"].branch = "lock"
    /\ bot["c1"].groupId = "g1"
    /\ bot["c1"].active = NoId
    /\ bot["c1"].handled = "true"
    /\ out["c1"] = <<Message("no_active", <<>>)>>
    /\ Cardinality(PollIds) = 2
    /\ ActivePollsOfGroup("g1") = {}
    /\ selectedItems["c1"]["g1"] # NoCandidate

\* ------------------------------------------------- claims: votes and polls
\* C30: whatever castVote calls run concurrently with it, at the moment
\* deletePoll(P, creator) returns successfully no Vote record for P is in the
\* store.
C30_DeleteLeavesNoVoteBehind ==
    [][\A p \in Procs :
          (/\ arg'[p].op = "deletePoll"
           /\ pc[p] # "done" /\ pc'[p] = "done"
           /\ result'[p].status = "ok")
          => /\ arg'[p].pollId \notin DOMAIN polls'
             /\ \A v \in DOMAIN votes' : votes'[v].pollId # arg'[p].pollId]_vars

\* C29: a Vote record is created or changed only while its poll is active: a
\* step that adds a vote or changes a vote's choice does so for a poll that
\* exists and has active = true, so the votes of an inactive poll (closed,
\* superseded or locked) stay as they are.
C29_VotesOnlyOnActivePoll ==
    [][\A v \in DOMAIN votes' :
          (v \notin DOMAIN votes \/ votes'[v] # votes[v]) =>
             /\ votes'[v].pollId \in DOMAIN polls
             /\ polls[votes'[v].pollId].active]_vars

\* C28: once a /lock call has set the active poll inactive, it attempts a
\* notification for every join vote it read on that poll: when the call has
\* ended, in whatever way, after its poll update succeeded, every join voter
\* it read has a notification attempt.
C28_LockedMeansNotified ==
    \A p \in Procs :
       (/\ pc[p] = "bot_done"
        /\ bot[p].branch = "lock"
        /\ bot[p].active # NoId
        /\ ~interleaved[p]
        /\ ~polls[bot[p].active].active)
       => \A v \in listed[p] :
             \E i \in DOMAIN notified[p] : notified[p][i].userId = bot[p].joiners[v]

\* C26: a plan search that has completed and stored its results leaves the
\* group without a selected item, so that a /when before the next /select
\* finds no selection.
C26_SearchClearsSelection ==
    \A p \in Procs :
       (/\ pc[p] = "bot_done"
        /\ bot[p].branch \in {"planoutings", "planmovies"}
        /\ bot[p].handled = "true"
        /\ out[p] # <<>>
        /\ out[p][Len(out[p])].kind = "list")
       => selectedItems[p][bot[p].groupId] = NoCandidate

\* C23: a socket that has closed is in no group's subscriber set, also when
\* the close was handled while a join awaited the membership lookup.
C23_ClosedSocketIsUnsubscribed ==
    \A w \in Sockets : ws[w].readyState = "CLOSED" => \A g \in Groups : w \notin clients[g]

\* C22: an event for a group is sent to exactly the open sockets of that
\* group's set, and a socket is sent an event for g only if the latest join of
\* it that succeeded was for g.
C22_BroadcastReachesTheGroup ==
    [][\A e \in [type : {"message", "poll"}, groupId : Groups, id : 1..(MaxDbMessages + MaxDbPolls)] :
          sent' = Append(sent, e) =>
             \A w \in Sockets :
                /\ (received'[w] = Append(received[w], e))
                      <=> (w \in clients[e.groupId] /\ ws[w].readyState = "OPEN")
                /\ received'[w] # received[w] => joined[w] = e.groupId]_vars

\* a socket that moved from g1 to g2 is sent a g2 event; the other socket, in g1, is not
C22_Witness ==
    /\ joined["w1"] = "g2"
    /\ ws["w1"].readyState = "OPEN"
    /\ "w2" \in clients["g1"]
    /\ ws["w2"].readyState = "OPEN"
    /\ \E i \in 1..Len(sent) : sent[i].groupId = "g1"
    /\ received["w2"] # <<>>
    /\ \E i \in 1..Len(received["w1"]) :
          received["w1"][i].type = "message" /\ received["w1"][i].groupId = "g2"
    /\ \A i \in 1..Len(received["w1"]) : received["w1"][i].groupId = "g2"

\* C24: events of one kind for one group reach a subscriber in the order in
\* which their writes committed (ids are assigned in commit order).
C24_DeliveredInCommitOrder ==
    \A w \in Sockets : \A i, j \in 1..Len(received[w]) :
        (/\ i < j
         /\ received[w][i].type = received[w][j].type
         /\ received[w][i].groupId = received[w][j].groupId)
            => received[w][i].id < received[w][j].id

\* C25: a request that succeeds in creating a message, creating a poll,
\* creating or updating a vote, or toggling a reaction sends one change event
\* to every open socket subscribed to the group of what it changed.
C25_EveryMutationIsBroadcast ==
    [][\A h \in Handlers :
          (req[h].pc \in {"pm_broadcast", "pp_broadcast", "pv_write", "pr_list"}
              /\ req'[h].pc = "responded" /\ req'[h].status = "200") =>
             LET g == IF req[h].pc \in {"pm_broadcast", "pp_broadcast"} THEN req[h].groupId
                      ELSE IF req[h].pc = "pv_write" THEN dbPolls[req[h].pollId].groupId
                      ELSE dbMessages[req[h].found].groupId
             IN  \A w \in clients[g] : ws[w].readyState = "OPEN" =>
                    /\ Len(received'[w]) = Len(received[w]) + 1
                    /\ SubSeq(received'[w], 1, Len(received[w])) = received[w]
                    /\ received'[w][Len(received'[w])].groupId = g]_vars

\* C27: after every step the chat page's message list is in creation order
\* with no message twice, and no step drops a message the list held.
C27_MessageListKeepsEveryMessageOnce ==
    [][/\ \A i, j \in 1..Len(messages') : i < j => messages'[i] < messages'[j]
       /\ \A i \in 1..Len(messages) : \E j \in 1..Len(messages') : messages'[j] = messages[i]]_vars
====
